---- MODULE Spec2Model ----
(***************************************************************************)
(* The maze solver and the chat of ChatWindow (src/chatwindow.cpp):        *)
(* findMazeBBox and buildGrid on images; findOpenings, the border sealing, *)
(* bfsPath, pathToMoves and the two coordinate mappings of                 *)
(* solveMazeFromFile; sessions of repeated solves with explainMazePath;    *)
(* postChat, postImage and their reply handlers.  A QPoint is the pair <<x, y>>; a grid  *)
(* is grid[y][x] with rows 0..gh-1 and columns 0..gw-1, as in the          *)
(* QVector<QVector<bool>> of the code.                                     *)
(***************************************************************************)
EXTENDS Integers, Sequences, FiniteSets, TLC

VARIABLES pc,            \* position in solveMazeFromFile / bfsPath
          grid,          \* QVector<QVector<bool>> grid (mutated by the sealing)
          start, goal,   \* QPoint start, goal
          dist, parent,  \* bfsPath: QVector<int> dist, QVector<QPoint> parent
          q,             \* bfsPath: std::queue<QPoint> q
          gridPath,      \* QVector<QPoint> gridPath
          lastGridPath,  \* ChatWindow::lastGridPath
          moves,         \* pathToMoves: QVector<Move> moves
          movesJson,     \* QString movesJson
          mazeW, mazeH,  \* mazeOnly.width(), mazeOnly.height()
          bbox,          \* bbox.x(), bbox.y()
          points,        \* QVector<QPointF> points (normalized)
          overlay,       \* the pixel points the overlay joins
          outcome,       \* what the handler reported
          img,           \* QImage img, img[y][x] an RGB triple
          depth,         \* img.depth(): the bits one pixel takes in a scan line
          mazeOnly,      \* QImage mazeOnly = img.copy(bbox)
          cs,            \* the cellSize argument of buildGrid
          hasKey,        \* !apiKey.isEmpty()
          prompt,        \* postChat: the userText of the last request
          conversationHistory,  \* QJsonArray conversationHistory, by role
          chatPending,   \* replies of postChat not yet finished
          inputEnabled,  \* input->isEnabled() and sendBtn->isEnabled()
          chatEvent,     \* what the last chat handler did
          youLines,      \* the "You:" lines in the history widget
          memory,        \* the file memory.json
          messages,      \* QJsonArray messages of the image chat, by role
          imagePending,  \* replies of postImage not yet finished
          sendImageEnabled,  \* sendImageBtn->isEnabled()
          imageDialog    \* sendImage waits in its file dialog

solveVars == <<pc, grid, start, goal, dist, parent, q, gridPath, lastGridPath,
               moves, movesJson, mazeW, mazeH, bbox, points, overlay, outcome>>
imageVars == <<img, depth, mazeOnly, cs>>
textVars == <<prompt, conversationHistory, chatPending, chatEvent, memory>>
pictureVars == <<messages, imagePending, sendImageEnabled, imageDialog>>
chatVars == <<hasKey, inputEnabled, youLines, textVars, pictureVars>>

vars == <<solveVars, imageVars, chatVars>>

(***************************************************************************)
(* Bounds of the model.                                                    *)
(***************************************************************************)
\* the pipeline runs on every grid of at most MaxCells cells
MaxCells == 12
\* bfsPath alone runs on every grid of at most BfsMaxCells cells
BfsMaxCells == 9
\* pathToMoves alone runs on every point sequence of at most MaxPathLen
\* points with 0 <= x <= PathMaxX and 0 <= y <= PathMaxY
MaxPathLen == 4
PathMaxX == 2
PathMaxY == 1
\* the bounding box origin is drawn from (0..MaxOff) x (0..MaxOff)
MaxOff == 1

(***************************************************************************)
(* Program constants.                                                      *)
(***************************************************************************)
cellSize == 3

(***************************************************************************)
(* Grids.                                                                  *)
(***************************************************************************)
GridH(g) == Cardinality(DOMAIN g)
GridW(g) == Cardinality(DOMAIN g[0])

Dims(n) == {d \in (1..n) \X (1..n) : d[1] * d[2] <= n}
GridsOf(w, h) == [0..(h-1) -> [0..(w-1) -> BOOLEAN]]
Cells(g) == (0..(GridW(g)-1)) \X (0..(GridH(g)-1))
FreeCells(g) == {c \in Cells(g) : g[c[2]][c[1]]}
IsBorder(g, c) == \/ c[2] = 0 \/ c[2] = GridH(g) - 1
                  \/ c[1] = 0 \/ c[1] = GridW(g) - 1
FreeBorder(g) == {c \in FreeCells(g) : IsBorder(g, c)}

NoPoint == <<-1, -1>>
Reverse(s) == [i \in 1..Len(s) |-> s[Len(s) + 1 - i]]

(***************************************************************************)
(* findOpenings: the list of openings is built by one loop over the        *)
(* columns (top cell, then bottom cell of each column) followed by one     *)
(* loop over the rows (left cell, then right cell of each row).            *)
(***************************************************************************)
\* mutant: the whole top row is scanned before the bottom row
RECURSIVE ScanRow(_, _, _)
ScanRow(g, x, y) ==
    IF x >= GridW(g) THEN <<>>
    ELSE (IF g[y][x] THEN << <<x, y>> >> ELSE <<>>) \o ScanRow(g, x + 1, y)
ScanTopThenBottom(g, x) == ScanRow(g, x, 0) \o ScanRow(g, x, GridH(g) - 1)

RECURSIVE ScanTopBottom(_, _)
ScanTopBottom(g, x) ==
    IF x >= GridW(g) THEN <<>>
    ELSE (IF g[0][x] THEN << <<x, 0>> >> ELSE <<>>)
         \o (IF g[GridH(g)-1][x] THEN << <<x, GridH(g)-1>> >> ELSE <<>>)
         \o ScanTopBottom(g, x + 1)

RECURSIVE ScanLeftRight(_, _)
ScanLeftRight(g, y) ==
    IF y >= GridH(g) THEN <<>>
    ELSE (IF g[y][0] THEN << <<0, y>> >> ELSE <<>>)
         \o (IF g[y][GridW(g)-1] THEN << <<GridW(g)-1, y>> >> ELSE <<>>)
         \o ScanLeftRight(g, y + 1)

Openings(g) == ScanTopBottom(g, 0) \o ScanLeftRight(g, 0)

\* the result: ok, and the start and goal written through the references
\* (s0, g0 are the caller's values, left alone on failure)
findOpenings(g, s0, g0) ==
    LET openings == Openings(g) IN
    IF Len(openings) < 2
    THEN [ok |-> FALSE, start |-> s0, goal |-> g0]
    ELSE [ok |-> TRUE, start |-> openings[1], goal |-> openings[Len(openings)]]

(***************************************************************************)
(* The border sealing of solveMazeFromFile.                                *)
(***************************************************************************)
\* mutant: two points are taken as the same when their x agree
sameColumn(a, b) == a[1] = b[1]

same(a, b) == a[1] = b[1] /\ a[2] = b[2]

\* mutant: the second loop leaves the right column alone
SealCellNoRight(g, s, t, x, y) ==
    LET gh == GridH(g)
        top    == y = 0      /\ ~same(<<x, 0>>, s)      /\ ~same(<<x, 0>>, t)
        bottom == y = gh - 1 /\ ~same(<<x, gh - 1>>, s) /\ ~same(<<x, gh - 1>>, t)
        left   == x = 0      /\ ~same(<<0, y>>, s)      /\ ~same(<<0, y>>, t)
    IN IF top \/ bottom \/ left THEN FALSE ELSE g[y][x]

SealCell(g, s, t, x, y) ==
    LET gh == GridH(g)
        gw == GridW(g)
        top    == y = 0      /\ ~same(<<x, 0>>, s)      /\ ~same(<<x, 0>>, t)
        bottom == y = gh - 1 /\ ~same(<<x, gh - 1>>, s) /\ ~same(<<x, gh - 1>>, t)
        left   == x = 0      /\ ~same(<<0, y>>, s)      /\ ~same(<<0, y>>, t)
        right  == x = gw - 1 /\ ~same(<<gw - 1, y>>, s) /\ ~same(<<gw - 1, y>>, t)
    IN IF top \/ bottom \/ left \/ right THEN FALSE ELSE g[y][x]

\* mutant: only the loop over the top and bottom rows runs
sealBorderRowsOnly(g, s, t) ==
    [y \in DOMAIN g |-> [x \in DOMAIN g[y] |->
        IF (y = 0 \/ y = GridH(g) - 1) /\ ~same(<<x, y>>, s) /\ ~same(<<x, y>>, t)
        THEN FALSE ELSE g[y][x]]]

sealBorder(g, s, t) ==
    [y \in DOMAIN g |-> [x \in DOMAIN g[y] |-> SealCell(g, s, t, x, y)]]

(***************************************************************************)
(* bfsPath.  dist and parent are flat arrays indexed by idx = y*gw + x.    *)
(* The search state is the record [dist, parent, q].                       *)
(***************************************************************************)
idx(gw, x, y) == y * gw + x

\* const int dx[4] = {1,-1,0,0}, dy[4] = {0,0,1,-1}; k = 1..4 here
dx == <<1, -1, 0, 0>>
dy == <<0, 0, 1, -1>>

BfsInit(g, s) ==
    LET n == GridW(g) * GridH(g) IN
    [dist   |-> [i \in 0..(n-1) |-> IF i = idx(GridW(g), s[1], s[2]) THEN 0 ELSE -1],
     parent |-> [i \in 0..(n-1) |-> NoPoint],
     q      |-> << s >>]

\* mutant: a discovered cell is pushed at the front of the queue
VisitPushFront(g, b, u, k) ==
    LET gw == GridW(g)
        gh == GridH(g)
        nx == u[1] + dx[k]
        ny == u[2] + dy[k]
        id == idx(gw, nx, ny)
    IN IF nx < 0 \/ ny < 0 \/ nx >= gw \/ ny >= gh THEN b
       ELSE IF ~g[ny][nx] THEN b
       ELSE IF b.dist[id] # -1 THEN b
       ELSE [dist   |-> [b.dist EXCEPT ![id] = b.dist[idx(gw, u[1], u[2])] + 1],
             parent |-> [b.parent EXCEPT ![id] = u],
             q      |-> << <<nx, ny>> >> \o b.q]

\* one round of the inner for loop: neighbour k of the dequeued cell u
\* mutant: a neighbour is taken whether or not it has a distance already
VisitNoDistCheck(g, b, u, k) ==
    LET gw == GridW(g)
        gh == GridH(g)
        nx == u[1] + dx[k]
        ny == u[2] + dy[k]
        id == idx(gw, nx, ny)
    IN IF nx < 0 \/ ny < 0 \/ nx >= gw \/ ny >= gh THEN b
       ELSE IF ~g[ny][nx] THEN b
       ELSE [dist   |-> [b.dist EXCEPT ![id] = b.dist[idx(gw, u[1], u[2])] + 1],
             parent |-> [b.parent EXCEPT ![id] = u],
             q      |-> Append(b.q, <<nx, ny>>)]

Visit(g, b, u, k) ==
    LET gw == GridW(g)
        gh == GridH(g)
        nx == u[1] + dx[k]
        ny == u[2] + dy[k]
        id == idx(gw, nx, ny)
    IN IF nx < 0 \/ ny < 0 \/ nx >= gw \/ ny >= gh THEN b
       ELSE IF ~g[ny][nx] THEN b
       ELSE IF b.dist[id] # -1 THEN b
       ELSE [dist   |-> [b.dist EXCEPT ![id] = b.dist[idx(gw, u[1], u[2])] + 1],
             parent |-> [b.parent EXCEPT ![id] = u],
             q      |-> Append(b.q, <<nx, ny>>)]

\* the inner for loop, k = 0..3 in the code
\* mutant: the neighbours are examined South, North, East, West
ExpandSouthFirst(g, b, u) == Visit(g, Visit(g, Visit(g, Visit(g, b, u, 3), u, 4), u, 1), u, 2)

Expand(g, b, u) == Visit(g, Visit(g, Visit(g, Visit(g, b, u, 1), u, 2), u, 3), u, 4)

\* for (v = goal; v != QPoint(-1,-1); v = parent[idx(v)]) { append; if (v == start) break; }
RECURSIVE ParentWalk(_, _, _, _)
ParentWalk(par, gw, v, s) ==
    IF v = NoPoint THEN <<>>
    ELSE IF v = s THEN << v >>
    ELSE << v >> \o ParentWalk(par, gw, par[idx(gw, v[1], v[2])], s)

\* mutant: the parent walk is returned without the dist[goal] == -1 test
BfsResultNoCheck(g, d, par, s, t) == Reverse(ParentWalk(par, GridW(g), t, s))

\* the tail of bfsPath: the empty path, or the reversed parent walk
BfsResult(g, d, par, s, t) ==
    IF d[idx(GridW(g), t[1], t[2])] = -1 THEN <<>>
    ELSE Reverse(ParentWalk(par, GridW(g), t, s))

(***************************************************************************)
(* pathToMoves.  The loop state is [prev, curDir, curSteps, moves].        *)
(***************************************************************************)
dirFromDelta(ddx, ddy) ==
    IF ddx = 1 /\ ddy = 0 THEN "E"
    ELSE IF ddx = -1 /\ ddy = 0 THEN "W"
    ELSE IF ddx = 0 /\ ddy = 1 THEN "S"
    ELSE IF ddx = 0 /\ ddy = -1 THEN "N"
    ELSE "?"

Move(d, n) == [dir |-> d, steps |-> n]

\* mutant: an invalid delta closes the current run
MoveStepBreaksRun(st, p) ==
    LET d == dirFromDelta(p[1] - st.prev[1], p[2] - st.prev[2]) IN
    IF d = "?"
    THEN IF st.curSteps = 0 THEN [st EXCEPT !.prev = p]
         ELSE [st EXCEPT !.moves = Append(@, Move(st.curDir, st.curSteps)),
                         !.curSteps = 0, !.prev = p]
    ELSE IF st.curSteps = 0
         THEN [st EXCEPT !.curDir = d, !.curSteps = 1, !.prev = p]
    ELSE IF d = st.curDir
         THEN [st EXCEPT !.curSteps = @ + 1, !.prev = p]
    ELSE [st EXCEPT !.moves = Append(@, Move(st.curDir, st.curSteps)),
                    !.curDir = d, !.curSteps = 1, !.prev = p]

\* the body of the for loop, for the point p = gridPath[i]
MoveStep(st, p) ==
    LET d == dirFromDelta(p[1] - st.prev[1], p[2] - st.prev[2]) IN
    IF d = "?" THEN [st EXCEPT !.prev = p]
    ELSE IF st.curSteps = 0
         THEN [st EXCEPT !.curDir = d, !.curSteps = 1, !.prev = p]
    ELSE IF d = st.curDir
         THEN [st EXCEPT !.curSteps = @ + 1, !.prev = p]
    ELSE [st EXCEPT !.moves = Append(@, Move(st.curDir, st.curSteps)),
                    !.curDir = d, !.curSteps = 1, !.prev = p]

\* for (int i = 1; i < gridPath.size(); ++i): i = 2..Len here
RECURSIVE MoveLoop(_, _, _)
MoveLoop(path, i, st) ==
    IF i > Len(path) THEN st ELSE MoveLoop(path, i + 1, MoveStep(st, path[i]))

\* mutant: the run still open after the loop is not pushed
MoveFlushDropsLast(st) == st.moves

\* if (curSteps > 0) moves.push_back({curDir, curSteps});
MoveFlush(st) ==
    IF st.curSteps > 0 THEN Append(st.moves, Move(st.curDir, st.curSteps))
    ELSE st.moves

\* the QVector<Move> moves at the end of pathToMoves
MovesOf(path) ==
    IF Len(path) < 2 THEN <<>>
    ELSE MoveFlush(MoveLoop(path, 2, [prev |-> path[1], curDir |-> "",
                                      curSteps |-> 0, moves |-> <<>>]))

\* QString("{\"dir\":\"%1\",\"steps\":%2}").arg(m.dir).arg(m.steps)
MoveText(m) == "{\"dir\":\"" \o m.dir \o "\",\"steps\":" \o ToString(m.steps) \o "}"

\* parts.join(",")
RECURSIVE JoinParts(_, _)
JoinParts(ms, i) ==
    IF i > Len(ms) THEN ""
    ELSE (IF i > 1 THEN "," ELSE "") \o MoveText(ms[i]) \o JoinParts(ms, i + 1)

\* the returned QString
pathToMoves(path) ==
    IF Len(path) < 2 THEN "{}" ELSE "[" \o JoinParts(MovesOf(path), 1) \o "]"

(***************************************************************************)
(* The coordinate mappings, in doubles.  A finite double is its sign s and *)
(* its magnitude m in binary fixed point: m[7] is the integer part and     *)
(* m[6] .. m[1] are the 84 bits after the point, 14 to a digit, m[1] the   *)
(* lowest (its unit is 2^-84).  Every operation gives the exact result     *)
(* rounded to the 53 leading bits, ties to even, as the hardware does.     *)
(* That covers the magnitudes from 2^-30 to 2^30 and zero, far more than   *)
(* the coordinates of an image need.  An infinity has k = "inf" and its    *)
(* sign, NaN has k = "nan"; a zero carries no sign here.                   *)
(***************************************************************************)
DigitBase == 16384
NoDigits == <<0, 0, 0, 0, 0, 0, 0>>
Dbl(sign, mag) == [k |-> "num", s |-> IF mag = NoDigits THEN 1 ELSE sign, m |-> mag]
RInt(i) == Dbl(IF i < 0 THEN -1 ELSE 1,
             <<0, 0, 0, 0, 0, 0, IF i < 0 THEN -i ELSE i>>)
\* n / 2 for n >= 0
RHalves(n) == Dbl(1, <<0, 0, 0, 0, 0, (n % 2) * (DigitBase \div 2), n \div 2>>)
NaN == [k |-> "nan", s |-> 1, m |-> NoDigits]
Inf(sign) == [k |-> "inf", s |-> sign, m |-> NoDigits]

\* a < b on magnitudes: the highest digit that differs decides
MagLess(a, b) == \E i \in 1..7 : a[i] < b[i] /\ \A j \in (i + 1)..7 : a[j] = b[j]

\* a < b on doubles: false as soon as one side is NaN
RLess(a, b) ==
    IF a.k = "nan" \/ b.k = "nan" THEN FALSE
    ELSE IF a.k = "inf" THEN a.s < 0 /\ ~(b.k = "inf" /\ b.s < 0)
    ELSE IF b.k = "inf" THEN b.s > 0
    ELSE IF a.s # b.s THEN a.s < 0
    ELSE IF a.s > 0 THEN MagLess(a.m, b.m)
    ELSE MagLess(b.m, a.m)

\* a == b on doubles: false as soon as one side is NaN, an infinity equals
\* only the infinity of its own sign
REq(a, b) ==
    IF a.k = "nan" \/ b.k = "nan" THEN FALSE
    ELSE IF a.k = "inf" \/ b.k = "inf" THEN a.k = b.k /\ a.s = b.s
    ELSE a.s = b.s /\ a.m = b.m

\* the sign of a double that is not NaN: -1, 0 or 1
RSign(a) == IF a.k = "num" /\ a.m = NoDigits THEN 0 ELSE a.s

\* the digits brought back below DigitBase, the carries passed upwards into
\* the integer part
Carry7(ds) ==
    LET v1 == ds[1]
        v2 == ds[2] + v1 \div DigitBase
        v3 == ds[3] + v2 \div DigitBase
        v4 == ds[4] + v3 \div DigitBase
        v5 == ds[5] + v4 \div DigitBase
        v6 == ds[6] + v5 \div DigitBase
        v7 == ds[7] + v6 \div DigitBase
    IN  << v1 % DigitBase, v2 % DigitBase, v3 % DigitBase, v4 % DigitBase,
           v5 % DigitBase, v6 % DigitBase, v7 >>

\* the number of bits of a magnitude, counted from the unit of m[1]
BitLength(v) == Cardinality({n \in 0..30 : 2^n <= v})
MagBits(mag) ==
    IF mag[7] > 0 THEN 84 + BitLength(mag[7])
    ELSE IF mag = NoDigits THEN 0
    ELSE LET i == CHOOSE j \in 1..6 : mag[j] > 0 /\ \A h \in (j + 1)..6 : mag[h] = 0
         IN  14 * (i - 1) + BitLength(mag[i])

\* an exact magnitude (mag, and something more below its last bit if sticky)
\* rounded to 53 bits: the n bits below them are cut, and the last bit kept
\* is raised if they are more than half of it, or half of it and it is odd
Round53(mag, sticky) ==
    LET n == MagBits(mag) - 53 IN
    IF n <= 0 THEN mag
    ELSE LET j == (n - 1) \div 14
             t == n - 14 * j
             u == 2^t
             low == mag[j + 1] % u
             half == low \div (u \div 2) = 1
             more == \/ sticky
                     \/ low % (u \div 2) # 0
                     \/ \E i \in 1..j : mag[i] # 0
             odd == IF t = 14 THEN mag[j + 2] % 2 = 1
                    ELSE (mag[j + 1] \div u) % 2 = 1
             up == half /\ (more \/ odd)
         IN  Carry7([i \in 1..7 |->
                        IF i <= j THEN 0
                        ELSE IF i = j + 1
                             THEN mag[i] - low + (IF up THEN u ELSE 0)
                        ELSE mag[i]])

\* the magnitude mag divided by the integer b > 0, digit by digit from the
\* top, and what is left over
DivDigits(mag, b) ==
    LET r7 == mag[7] % b
        t6 == r7 * DigitBase + mag[6]
        t5 == (t6 % b) * DigitBase + mag[5]
        t4 == (t5 % b) * DigitBase + mag[4]
        t3 == (t4 % b) * DigitBase + mag[3]
        t2 == (t3 % b) * DigitBase + mag[2]
        t1 == (t2 % b) * DigitBase + mag[1]
    IN  [q |-> << t1 \div b, t2 \div b, t3 \div b, t4 \div b, t5 \div b,
                  t6 \div b, mag[7] \div b >>,
         rest |-> t1 % b]

\* a / b on doubles, b a whole number as w - 1.0 is: NaN for a NaN operand,
\* for 0/0 and for inf/inf; a finite value over an infinity is zero; an
\* infinity over a finite value, and a nonzero value over zero, is the
\* infinity of the quotient's sign; else the rounded quotient
RDiv(a, b) ==
    IF a.k = "nan" \/ b.k = "nan" THEN NaN
    ELSE IF a.k = "inf"
         THEN (IF b.k = "inf" THEN NaN
               ELSE Inf(IF RSign(b) < 0 THEN -a.s ELSE a.s))
    ELSE IF b.k = "inf" THEN RInt(0)
    ELSE IF b.m = NoDigits THEN (IF a.m = NoDigits THEN NaN ELSE Inf(RSign(a)))
    ELSE LET d == DivDigits(a.m, b.m[7])
         IN  Dbl(a.s * b.s, Round53(d.q, d.rest # 0))

\* a + b on doubles that are not negative (an origin and a product)
RAdd(a, b) == Dbl(1, Round53(Carry7([i \in 1..7 |-> a.m[i] + b.m[i]]), FALSE))

\* a * b on finite doubles, b a whole number as w is
RMul(a, b) ==
    Dbl(a.s * b.s, Round53(Carry7([i \in 1..7 |-> a.m[i] * b.m[7]]), FALSE))

\* Qt: qMin(a,b) = (a < b) ? a : b; qMax(a,b) = (a < b) ? b : a;
\* qBound(min,val,max) = qMax(min, qMin(max, val))
qMin(a, b) == IF RLess(a, b) THEN a ELSE b
qMax(a, b) == IF RLess(a, b) THEN b ELSE a
qBound(lo, val, hi) == qMax(lo, qMin(hi, val))

\* (c + 0.5) * cellSize
CellCentre(c) == RHalves((2 * c + 1) * cellSize)

\* one coordinate of a normalized point: dim is mazeOnly.width() or height()
\*   w = dim - 1;  cx = qBound(0.0, cx, w - 1.0);  nx = cx / (w - 1.0)
NormCoordDouble(c, dim) ==
    LET w  == dim - 1
        cx == qBound(RInt(0), CellCentre(c), RInt(w - 1))
    IN RDiv(cx, RInt(w - 1))

\* the coordinates of a cell and the dimensions of an image a solve can meet
\* here, and NormCoordDouble worked out once for each (joined with the empty
\* function the table is the same function, held by TLC as its values)
CellCoords == 0..(MaxCells - 1)
ImageSizes == 1..(cellSize * MaxCells)
NormTable == [a \in CellCoords \X ImageSizes |-> NormCoordDouble(a[1], a[2])] @@ <<>>
NormCoord(c, dim) == NormTable[<<c, dim>>]

NormPoint(cell, W, H) == << NormCoord(cell[1], W), NormCoord(cell[2], H) >>

\* mapX / mapY: origin + qBound(0.0, x, 1.0) * w, with w = dim - 1
MapCoord(origin, x, dim) ==
    RAdd(RInt(origin), RMul(qBound(RInt(0), x, RInt(1)), RInt(dim - 1)))

MapPoint(np, box, W, H) ==
    << MapCoord(box[1], np[1], W), MapCoord(box[2], np[2], H) >>

\* MapCoord of the normalized coordinate of a cell, worked out once for each
\* origin, cell coordinate and dimension; MapCell(cell, box, W, H) is
\* MapPoint(NormPoint(cell, W, H), box, W, H)
MapTable ==
    [a \in (0..MaxOff) \X CellCoords \X ImageSizes |->
        MapCoord(a[1], NormCoord(a[2], a[3]), a[3])] @@ <<>>
MapCell(cell, box, W, H) ==
    << MapTable[<<box[1], cell[1], W>>], MapTable[<<box[2], cell[2], H>>] >>

\* the widths an image may have whose grid has n columns: ceil(W/cellSize) = n
ImageDims(n) == {W \in 1..(n * cellSize) : (W + cellSize - 1) \div cellSize = n}

(***************************************************************************)
(* solveMazeFromFile, from the grid buildGrid returned to the overlay.     *)
(***************************************************************************)
\* the image and the chat play no part
NoImage == img = <<>> /\ depth = 32 /\ mazeOnly = <<>> /\ cs = cellSize
NoMemory == [isArray |-> FALSE, array |-> <<>>]
FreshChat ==
    /\ prompt = ""
    /\ conversationHistory = IF memory.isArray THEN memory.array
                             ELSE << "system" >>
    /\ chatPending = 0 /\ inputEnabled = TRUE /\ chatEvent = "none"
    /\ youLines = 0
    /\ messages = <<>> /\ imagePending = 0 /\ sendImageEnabled = TRUE
    /\ imageDialog = FALSE
NoChat == hasKey = TRUE /\ memory = NoMemory /\ FreshChat

\* the state once buildGrid has returned: any grid of at least 1x1 cells
Init ==
    /\ pc = "findOpenings"
    /\ \E d \in Dims(MaxCells) : grid \in GridsOf(d[1], d[2])
    /\ start = <<0, 0>> /\ goal = <<0, 0>>
    /\ dist = <<>> /\ parent = <<>> /\ q = <<>>
    /\ gridPath = <<>> /\ lastGridPath = <<>>
    /\ moves = <<>> /\ movesJson = ""
    /\ mazeW = 0 /\ mazeH = 0 /\ bbox = <<0, 0>>
    /\ points = <<>> /\ overlay = <<>>
    /\ outcome = "running"
    /\ NoImage /\ NoChat

\* if (!findOpenings(grid, start, goal)) { "Could not find maze entrances."; return; }
FindOpenings ==
    /\ pc = "findOpenings"
    /\ LET r == findOpenings(grid, start, goal) IN
       /\ start' = r.start
       /\ goal' = r.goal
       /\ pc' = IF r.ok THEN "seal" ELSE "done"
       /\ outcome' = IF r.ok THEN outcome ELSE "no_entrances"
    /\ UNCHANGED <<grid, dist, parent, q, gridPath, lastGridPath, moves,
                   movesJson, mazeW, mazeH, bbox, points, overlay>>
    /\ UNCHANGED <<imageVars, chatVars>>

\* the two sealing loops
Seal ==
    /\ pc = "seal"
    /\ grid' = sealBorder(grid, start, goal)
    /\ pc' = "bfsPath"
    /\ UNCHANGED <<start, goal, dist, parent, q, gridPath, lastGridPath, moves,
                   movesJson, mazeW, mazeH, bbox, points, overlay, outcome>>
    /\ UNCHANGED <<imageVars, chatVars>>

\* bfsPath up to its while loop
BfsEnter ==
    /\ pc = "bfsPath"
    /\ LET b == BfsInit(grid, start) IN
       /\ dist' = b.dist /\ parent' = b.parent /\ q' = b.q
    /\ pc' = "bfsLoop"
    /\ UNCHANGED <<grid, start, goal, gridPath, lastGridPath, moves,
                   movesJson, mazeW, mazeH, bbox, points, overlay, outcome>>
    /\ UNCHANGED <<imageVars, chatVars>>

\* one round of while (!q.empty()): pop u, break at the goal, else expand u
BfsDequeue ==
    /\ pc = "bfsLoop"
    /\ q # <<>>
    /\ LET u == Head(q)
           b == [dist |-> dist, parent |-> parent, q |-> Tail(q)]
           n == IF u = goal THEN b ELSE Expand(grid, b, u)
       IN /\ dist' = n.dist /\ parent' = n.parent /\ q' = n.q
          /\ pc' = IF u = goal THEN "bfsReturn" ELSE "bfsLoop"
    /\ UNCHANGED <<grid, start, goal, gridPath, lastGridPath, moves,
                   movesJson, mazeW, mazeH, bbox, points, overlay, outcome>>
    /\ UNCHANGED <<imageVars, chatVars>>

\* the while loop ends on the empty queue
BfsExhausted ==
    /\ pc = "bfsLoop"
    /\ q = <<>>
    /\ pc' = "bfsReturn"
    /\ UNCHANGED <<grid, start, goal, dist, parent, q, gridPath, lastGridPath,
                   moves, movesJson, mazeW, mazeH, bbox, points, overlay, outcome>>
    /\ UNCHANGED <<imageVars, chatVars>>

\* QVector<QPoint> gridPath = bfsPath(grid, start, goal);
BfsReturn ==
    /\ pc = "bfsReturn"
    /\ gridPath' = BfsResult(grid, dist, parent, start, goal)
    /\ pc' = "checkPath"
    /\ UNCHANGED <<grid, start, goal, dist, parent, q, lastGridPath, moves,
                   movesJson, mazeW, mazeH, bbox, points, overlay, outcome>>
    /\ UNCHANGED <<imageVars, chatVars>>

\* mutant: lastGridPath is assigned before the test for the empty path
CheckPathStoresFirst ==
    /\ pc = "checkPath"
    /\ lastGridPath' = gridPath
    /\ IF gridPath = <<>>
       THEN /\ outcome' = "no_path"
            /\ pc' = "done"
            /\ UNCHANGED <<moves, movesJson>>
       ELSE /\ moves' = MovesOf(gridPath)
            /\ movesJson' = pathToMoves(gridPath)
            /\ pc' = "render"
            /\ UNCHANGED outcome
    /\ UNCHANGED <<grid, start, goal, dist, parent, q, gridPath,
                   mazeW, mazeH, bbox, points, overlay>>
    /\ UNCHANGED <<imageVars, chatVars>>

\* if (gridPath.isEmpty()) { "No path found by BFS."; return; }
\* lastGridPath = gridPath; movesJson = pathToMoves(gridPath);
CheckPath ==
    /\ pc = "checkPath"
    /\ IF gridPath = <<>>
       THEN /\ outcome' = "no_path"
            /\ pc' = "done"
            /\ UNCHANGED <<lastGridPath, moves, movesJson>>
       ELSE /\ lastGridPath' = gridPath
            /\ moves' = MovesOf(gridPath)
            /\ movesJson' = pathToMoves(gridPath)
            /\ pc' = "render"
            /\ UNCHANGED outcome
    /\ UNCHANGED <<grid, start, goal, dist, parent, q, gridPath,
                   mazeW, mazeH, bbox, points, overlay>>
    /\ UNCHANGED <<imageVars, chatVars>>

\* the normalized points, then the overlay through mapX and mapY; the image
\* the grid was built from has any size buildGrid turns into this grid's
\* dimensions, and its bounding box any small origin
Render ==
    /\ pc = "render"
    /\ \E W \in ImageDims(GridW(grid)), H \in ImageDims(GridH(grid)),
          box \in (0..MaxOff) \X (0..MaxOff) :
        /\ mazeW' = W /\ mazeH' = H /\ bbox' = box
        /\ points' = [i \in 1..Len(gridPath) |-> NormPoint(gridPath[i], W, H)]
        /\ overlay' = [i \in 1..Len(gridPath) |->
                         MapCell(gridPath[i], box, W, H)]
    /\ outcome' = "solved"
    /\ pc' = "done"
    /\ UNCHANGED <<grid, start, goal, dist, parent, q, gridPath, lastGridPath,
                   moves, movesJson>>
    /\ UNCHANGED <<imageVars, chatVars>>

\* qBound asserts !(max < min): with mazeOnly one pixel wide or high the
\* bound w - 1.0 is negative and a build with assertions aborts
RenderAbort ==
    /\ pc = "render"
    /\ \E W \in ImageDims(GridW(grid)), H \in ImageDims(GridH(grid)),
          box \in (0..MaxOff) \X (0..MaxOff) :
        /\ W - 2 < 0 \/ H - 2 < 0
        /\ mazeW' = W /\ mazeH' = H /\ bbox' = box
    /\ outcome' = "aborted"
    /\ pc' = "done"
    /\ UNCHANGED <<grid, start, goal, dist, parent, q, gridPath, lastGridPath,
                   moves, movesJson, points, overlay>>
    /\ UNCHANGED <<imageVars, chatVars>>

Next ==
    \/ FindOpenings \/ Seal
    \/ BfsEnter \/ BfsDequeue \/ BfsExhausted \/ BfsReturn
    \/ CheckPath \/ Render \/ RenderAbort

Spec == Init /\ [][Next]_vars

(***************************************************************************)
(* bfsPath alone, on every grid and every free start and goal.             *)
(***************************************************************************)
InitBfs ==
    /\ pc = "bfsPath"
    /\ \E d \in Dims(BfsMaxCells) : grid \in GridsOf(d[1], d[2])
    /\ start \in FreeCells(grid) /\ goal \in FreeCells(grid)
    /\ dist = <<>> /\ parent = <<>> /\ q = <<>>
    /\ gridPath = <<>> /\ lastGridPath = <<>>
    /\ moves = <<>> /\ movesJson = ""
    /\ mazeW = 0 /\ mazeH = 0 /\ bbox = <<0, 0>>
    /\ points = <<>> /\ overlay = <<>>
    /\ outcome = "running"
    /\ NoImage /\ NoChat

NextBfs == BfsEnter \/ BfsDequeue \/ BfsExhausted \/ BfsReturn

SpecBfs == InitBfs /\ [][NextBfs]_vars

(***************************************************************************)
(* pathToMoves alone, on every short sequence of points.                   *)
(***************************************************************************)
PathPoints == (0..PathMaxX) \X (0..PathMaxY)
PathsUpTo(n) == UNION {[1..k -> PathPoints] : k \in 0..n}

InitMoves ==
    /\ pc = "pathToMoves"
    /\ gridPath \in PathsUpTo(MaxPathLen)
    /\ grid = <<>> /\ start = <<0, 0>> /\ goal = <<0, 0>>
    /\ dist = <<>> /\ parent = <<>> /\ q = <<>>
    /\ lastGridPath = <<>>
    /\ moves = <<>> /\ movesJson = ""
    /\ mazeW = 0 /\ mazeH = 0 /\ bbox = <<0, 0>>
    /\ points = <<>> /\ overlay = <<>>
    /\ outcome = "running"
    /\ NoImage /\ NoChat

PathToMoves ==
    /\ pc = "pathToMoves"
    /\ moves' = MovesOf(gridPath)
    /\ movesJson' = pathToMoves(gridPath)
    /\ pc' = "movesDone"
    /\ UNCHANGED <<grid, start, goal, dist, parent, q, gridPath, lastGridPath,
                   mazeW, mazeH, bbox, points, overlay, outcome>>
    /\ UNCHANGED <<imageVars, chatVars>>

NextMoves == PathToMoves

SpecMoves == InitMoves /\ [][NextMoves]_vars

(***************************************************************************)
(* Reference notions the properties are stated with.                       *)
(***************************************************************************)
Abs(i) == IF i < 0 THEN -i ELSE i
Adjacent(a, b) == Abs(a[1] - b[1]) + Abs(a[2] - b[2]) = 1

\* S grown k times by the free cells four-adjacent to it
RECURSIVE Grow(_, _, _)
Grow(g, S, k) ==
    LET T == S \cup {c \in FreeCells(g) : \E r \in S : Adjacent(c, r)} IN
    IF k = 0 \/ T = S THEN S ELSE Grow(g, T, k - 1)

\* the cells within k four-connected steps of s through free cells
ReachWithin(g, s, k) == Grow(g, {s}, k)

NumCells(g) == GridW(g) * GridH(g)
Reachable(g, s, t) == t \in ReachWithin(g, s, NumCells(g))
ShortestDist(g, s, t) ==
    CHOOSE k \in 0..NumCells(g) :
        /\ t \in ReachWithin(g, s, k)
        /\ k = 0 \/ t \notin ReachWithin(g, s, k - 1)

NoRepeat(p) == \A i, j \in 1..Len(p) : i # j => p[i] # p[j]
FourConnected(p) == \A i \in 1..(Len(p) - 1) : Adjacent(p[i], p[i + 1])

\* the states in which findOpenings has just returned
OpeningsDone == pc = "seal" \/ (pc = "done" /\ outcome = "no_entrances")
\* the states in which the sealing loops have run
SealDone == pc \in {"bfsPath", "bfsLoop", "bfsReturn", "checkPath", "render"}
            \/ (pc = "done" /\ outcome # "no_entrances")
\* the states in which bfsPath has returned
BfsDone == pc \in {"checkPath", "render"}
           \/ (pc = "done" /\ outcome # "no_entrances")

(***************************************************************************)
(* C1: whenever goal is reachable from start, bfsPath returns a non-empty  *)
(* path from start to goal without repeated cells, whose consecutive cells *)
(* are four-adjacent and whose number of steps is the shortest distance.   *)
(***************************************************************************)
C1_ShortestSimplePath ==
    (pc = "checkPath" /\ Reachable(grid, start, goal)) =>
        /\ gridPath # <<>>
        /\ gridPath[1] = start
        /\ gridPath[Len(gridPath)] = goal
        /\ NoRepeat(gridPath)
        /\ FourConnected(gridPath)
        /\ Len(gridPath) - 1 = ShortestDist(grid, start, goal)

\* a path of four steps found in a grid that offers more free cells than
\* the path uses and at least one blocked cell
C1_Witness ==
    /\ pc = "checkPath"
    /\ Len(gridPath) = 5
    /\ ShortestDist(grid, start, goal) = 4
    /\ Cardinality(FreeCells(grid)) >= 7
    /\ Cardinality(FreeCells(grid)) < NumCells(grid)

(***************************************************************************)
(* C2: whenever goal is not reachable from start, bfsPath returns the      *)
(* empty path and the handler reports "no path" and stops: no move list,   *)
(* no normalized point, no overlay, and lastGridPath is not written.       *)
(***************************************************************************)
C2_NoPathStops ==
    (BfsDone /\ ~Reachable(grid, start, goal)) =>
        /\ gridPath = <<>>
        /\ pc \in {"checkPath", "done"}
        /\ pc = "done" => outcome = "no_path"
        /\ moves = <<>> /\ movesJson = ""
        /\ points = <<>> /\ overlay = <<>>
        /\ lastGridPath = <<>>

\* a finished solve that reported "no path" although the sealed grid has
\* free cells beside the two openings
C2_Witness ==
    /\ pc = "done" /\ outcome = "no_path"
    /\ start # goal
    /\ Cardinality(FreeCells(grid)) >= 4
    /\ Cardinality(DOMAIN dist) >= 9

(***************************************************************************)
(* C3: on a grid with exactly two free border cells findOpenings succeeds  *)
(* and start and goal are those two cells, start # goal.                   *)
(***************************************************************************)
C3_ExactlyTwoOpenings ==
    (OpeningsDone /\ Cardinality(FreeBorder(grid)) = 2) =>
        /\ pc = "seal"
        /\ {start, goal} = FreeBorder(grid)
        /\ start # goal

(***************************************************************************)
(* C4: the order in which the border is scanned.                           *)
(***************************************************************************)
\* the order of the code: per column the top then the bottom cell, then per
\* row the left then the right cell
InterleavedOrder(g) ==
    LET gw == GridW(g)
        gh == GridH(g)
    IN [i \in 1..(2 * gw + 2 * gh) |->
          IF i <= 2 * gw
          THEN << (i - 1) \div 2, IF i % 2 = 1 THEN 0 ELSE gh - 1 >>
          ELSE LET j == i - 2 * gw IN
               << IF j % 2 = 1 THEN 0 ELSE gw - 1, (j - 1) \div 2 >>]

\* the order of the original statement: the whole top row, the whole bottom
\* row, the left column, the right column
RowWiseOrder(g) ==
    LET gw == GridW(g)
        gh == GridH(g)
    IN [i \in 1..(2 * gw + 2 * gh) |->
          IF i <= gw THEN << i - 1, 0 >>
          ELSE IF i <= 2 * gw THEN << i - gw - 1, gh - 1 >>
          ELSE IF i <= 2 * gw + gh THEN << 0, i - 2 * gw - 1 >>
          ELSE << gw - 1, i - 2 * gw - gh - 1 >>]

FreeAt(g, ord) == {i \in DOMAIN ord : g[ord[i][2]][ord[i][1]]}
FirstFree(g, ord) == ord[CHOOSE i \in FreeAt(g, ord) : \A j \in FreeAt(g, ord) : i <= j]
LastFree(g, ord) == ord[CHOOSE i \in FreeAt(g, ord) : \A j \in FreeAt(g, ord) : i >= j]

\* C4 as stated: start is the first and goal the last free border cell of
\* the row-wise order (top row, bottom row, left column, right column)
C4_RowWiseScan ==
    (OpeningsDone /\ Cardinality(FreeBorder(grid)) >= 2) =>
        /\ pc = "seal"
        /\ start = FirstFree(grid, RowWiseOrder(grid))
        /\ goal = LastFree(grid, RowWiseOrder(grid))

\* C4 amended: on a grid with at least two free border cells findOpenings
\* succeeds, start is the first and goal the last free border cell of the
\* order: for each column left to right its top cell then its bottom cell,
\* then for each row top to bottom its left cell then its right cell
C4_InterleavedScan ==
    (OpeningsDone /\ Cardinality(FreeBorder(grid)) >= 2) =>
        /\ pc = "seal"
        /\ start = FirstFree(grid, InterleavedOrder(grid))
        /\ goal = LastFree(grid, InterleavedOrder(grid))

\* findOpenings has chosen openings that the row-wise order would not choose
C4_Witness ==
    /\ pc = "seal"
    /\ Cardinality(FreeBorder(grid)) >= 3
    /\ start = FirstFree(grid, InterleavedOrder(grid))
    /\ start # FirstFree(grid, RowWiseOrder(grid))
    /\ goal # LastFree(grid, RowWiseOrder(grid))

(***************************************************************************)
(* C5: findOpenings fails whenever the grid has fewer than two free border *)
(* cells, and succeeds only when two distinct free border cells exist.     *)
(***************************************************************************)
C5_FewerThanTwoFails ==
    OpeningsDone =>
        /\ Cardinality(FreeBorder(grid)) < 2 => (pc = "done" /\ outcome = "no_entrances")
        /\ pc = "seal" => Cardinality(FreeBorder(grid)) >= 2

(***************************************************************************)
(* C6: start and goal are free when the sealing starts; once it has run,   *)
(* every border cell other than start and goal is blocked and start and    *)
(* goal are still free.                                                    *)
(***************************************************************************)
C6_BorderSealed ==
    /\ pc = "seal" => (start \in FreeCells(grid) /\ goal \in FreeCells(grid))
    /\ SealDone =>
        /\ \A c \in Cells(grid) :
              (IsBorder(grid, c) /\ c # start /\ c # goal) => ~grid[c[2]][c[1]]
        /\ start \in FreeCells(grid)
        /\ goal \in FreeCells(grid)

\* a sealed grid with two distinct openings and free cells inside
C6_Witness ==
    /\ pc = "bfsPath"
    /\ start # goal
    /\ FreeBorder(grid) = {start, goal}
    /\ Cardinality(FreeCells(grid)) >= 4

(***************************************************************************)
(* C7, C8: pathToMoves as a run-length encoding.                           *)
(***************************************************************************)
Directions == {"N", "E", "S", "W"}
DirVec(d) == CASE d = "E" -> <<1, 0>> [] d = "W" -> <<-1, 0>>
               [] d = "S" -> <<0, 1>> [] d = "N" -> <<0, -1>>

\* the deltas of a path that are unit steps, as directions, in order
RECURSIVE ValidDirs(_, _)
ValidDirs(p, i) ==
    IF i >= Len(p) THEN <<>>
    ELSE LET D == {d \in Directions :
                     p[i + 1] = <<p[i][1] + DirVec(d)[1], p[i][2] + DirVec(d)[2]>>}
         IN (IF D = {} THEN <<>> ELSE << CHOOSE d \in D : TRUE >>)
            \o ValidDirs(p, i + 1)

\* each move expanded into steps copies of its direction
RECURSIVE ExpandMoves(_, _)
ExpandMoves(ms, i) ==
    IF i > Len(ms) THEN <<>>
    ELSE [k \in 1..ms[i].steps |-> ms[i].dir] \o ExpandMoves(ms, i + 1)

WellFormedRuns(ms) ==
    /\ \A i \in 1..Len(ms) : ms[i].steps >= 1 /\ ms[i].dir \in Directions
    /\ \A i \in 1..(Len(ms) - 1) : ms[i].dir # ms[i + 1].dir

ScenarioC == << <<0, 0>>, <<1, 0>>, <<2, 0>>, <<2, 1>> >>

\* C7: for a four-connected path of at least two cells the moves expand to
\* the per-step directions of the path, every move has steps >= 1 and a
\* direction in {N,E,S,W}, adjacent moves differ in direction, and
\* [(0,0),(1,0),(2,0),(2,1)] gives [E x2, S x1]
C7_RunLengthRoundTrip ==
    (pc = "movesDone" /\ Len(gridPath) >= 2 /\ FourConnected(gridPath)) =>
        /\ Len(ExpandMoves(moves, 1)) = Len(gridPath) - 1
        /\ ExpandMoves(moves, 1) = ValidDirs(gridPath, 1)
        /\ WellFormedRuns(moves)
        /\ gridPath = ScenarioC =>
              /\ moves = << Move("E", 2), Move("S", 1) >>
              /\ movesJson = "[{\"dir\":\"E\",\"steps\":2},{\"dir\":\"S\",\"steps\":1}]"

\* the path of scenario C has been compressed
C7_Witness ==
    /\ pc = "movesDone"
    /\ gridPath = ScenarioC
    /\ Len(moves) = 2

\* C8: a delta that is no unit step adds no step and does not end the run:
\* the moves are the run-length encoding of the valid deltas alone
C8_InvalidDeltaSkipped ==
    (pc = "movesDone" /\ Len(gridPath) >= 2) =>
        /\ ExpandMoves(moves, 1) = ValidDirs(gridPath, 1)
        /\ WellFormedRuns(moves)

\* two steps in one direction separated by an invalid delta became one move
C8_Witness ==
    /\ pc = "movesDone"
    /\ Len(gridPath) = 4
    /\ dirFromDelta(gridPath[2][1] - gridPath[1][1], gridPath[2][2] - gridPath[1][2]) = "E"
    /\ dirFromDelta(gridPath[3][1] - gridPath[2][1], gridPath[3][2] - gridPath[2][2]) = "?"
    /\ dirFromDelta(gridPath[4][1] - gridPath[3][1], gridPath[4][2] - gridPath[3][2]) = "E"
    /\ moves = << Move("E", 2) >>

(***************************************************************************)
(* C9, C10: the coordinate mappings.                                       *)
(***************************************************************************)
\* clamp(v, 0, hi) on finite values with 0 <= hi
Clamp(v, hi) == IF RLess(v, RInt(0)) THEN RInt(0)
                ELSE IF RLess(RInt(hi), v) THEN RInt(hi) ELSE v

\* the normalized coordinate of the statement: the centre clamped to the
\* last pixel index, divided by the dimension minus one
ClaimedNorm(c, dim) == RDiv(Clamp(CellCentre(c), dim - 1), RInt(dim - 1))

Solved == pc = "done" /\ outcome = "solved"

\* C9: every normalized point is x = clamp((col+0.5)*cellSize, 0, W-1)/(W-1),
\* y = clamp((row+0.5)*cellSize, 0, H-1)/(H-1)
C9_NormalizedByLastIndex ==
    (Solved /\ mazeW >= 3 /\ mazeH >= 3) =>
        \A i \in 1..Len(gridPath) :
            /\ REq(points[i][1], ClaimedNorm(gridPath[i][1], mazeW))
            /\ REq(points[i][2], ClaimedNorm(gridPath[i][2], mazeH))

\* the centre pixel as the handler clamps it
ClampedCentre(c, dim) == qBound(RInt(0), CellCentre(c), RInt(dim - 2))

\* C10: mapping a normalized point back gives the bounding box origin plus
\* the clamped centre pixel of its cell
C10_MappingsInverse ==
    (Solved /\ mazeW >= 3 /\ mazeH >= 3) =>
        \A i \in 1..Len(gridPath) :
            /\ REq(overlay[i][1],
                   RAdd(RInt(bbox[1]), ClampedCentre(gridPath[i][1], mazeW)))
            /\ REq(overlay[i][2],
                   RAdd(RInt(bbox[2]), ClampedCentre(gridPath[i][2], mazeH)))

(***************************************************************************)
(* Images: findMazeBBox, isWhite and buildGrid.  An image is img[y][x]     *)
(* with rows 0..H-1 and columns 0..W-1; a pixel is the triple              *)
(* <<qRed, qGreen, qBlue>>.                                                *)
(***************************************************************************)
\* findMazeBBox runs on every image of at most MaxPixels pixels
MaxPixels == 8

\* default arguments of findMazeBBox, threshold of isWhite
wallLum == 200
pad == 2
whiteLum == 230

\* the colours the images are painted with: a wall, a shade that is neither
\* dark nor white, and a corridor
Black == <<0, 0, 0>>
Grey == <<200, 210, 220>>
White == <<250, 255, 250>>
Palette == {Black, Grey, White}

\* images of 8 bits a pixel (Format_Grayscale8): a pixel is one byte g and
\* img.pixel(x, y) is the grey <<g, g, g>>; the levels painted with, which
\* are also the values a byte that holds no pixel is taken to have
MaxGrayPixels == 4
GrayLevels == {0, 255}

ImgH(im) == Cardinality(DOMAIN im)
ImgW(im) == IF ImgH(im) = 0 THEN 0 ELSE Cardinality(DOMAIN im[0])
ImagesOf(w, h) == [0..(h - 1) -> [0..(w - 1) -> Palette]]

\* the images of 8 bits a pixel
GrayImagesOf(w, h) ==
    [0..(h - 1) -> [0..(w - 1) -> {<<g, g, g>> : g \in GrayLevels}]]

\* The doubles of line 63.  A double in [0, 256) that is a multiple of 2^-56
\* is held exactly as the integer value * 2^56, written in five digits of
\* base LimbBase = 2^14, lowest digit first: the fifth digit is the integer
\* part of the double.
LimbBase == 16384

\* the literals 0.2126, 0.7152 and 0.0722: the doubles nearest to them are
\* 15319444492463480, 51535591255926056 and 5202558289538397 times 2^-56
kRed == <<11640, 15492, 3905, 3483, 0>>
kGreen == <<9512, 2149, 13710, 11717, 0>>
kBlue == <<11613, 15125, 15151, 1182, 0>>

\* the five digits brought back below LimbBase, the carries passed upwards
Carry(ds) ==
    LET v1 == ds[1]
        v2 == ds[2] + v1 \div LimbBase
        v3 == ds[3] + v2 \div LimbBase
        v4 == ds[4] + v3 \div LimbBase
        v5 == ds[5] + v4 \div LimbBase
    IN  << v1 % LimbBase, v2 % LimbBase, v3 % LimbBase, v4 % LimbBase, v5 >>

\* the number of bits of a digit
BitLen(v) == Cardinality({n \in 0..13 : 2^n <= v})

\* the bits a value has above the 53 a double keeps: digit 5 starts at bit
\* 56, digit 4 at bit 42; never more than 11, so they lie in digit 1
ExtraBits(ds) ==
    IF ds[5] > 0 THEN 3 + BitLen(ds[5])
    ELSE IF BitLen(ds[4]) > 11 THEN BitLen(ds[4]) - 11
    ELSE 0

\* the exact value rounded to the nearest double, ties to the even one
RoundDouble(ds) ==
    LET s == ExtraBits(ds) IN
    IF s = 0 THEN ds
    ELSE LET u == 2^s
             low == ds[1] % u
             odd == (ds[1] \div u) % 2 = 1
             up == 2 * low > u \/ (2 * low = u /\ odd)
         IN  Carry([ds EXCEPT ![1] = ds[1] - low + (IF up THEN u ELSE 0)])

\* weight * channel and a + b, each rounded as the double operation rounds
DMul(k, v) == RoundDouble(Carry([i \in 1..5 |-> k[i] * v]))
DAdd(a, b) == RoundDouble(Carry([i \in 1..5 |-> a[i] + b[i]]))

\* int(0.2126*qRed(c) + 0.7152*qGreen(c) + 0.0722*qBlue(c)): two rounded
\* products added, the third added to their sum, the conversion to int
\* truncates
lumDouble(c) ==
    DAdd(DAdd(DMul(kRed, c[1]), DMul(kGreen, c[2])), DMul(kBlue, c[3]))[5]

\* the colours a scan line or img.pixel can give here, and lum worked out
\* once for each (joined with the empty function the table is the same
\* function, held by TLC as its values)
Colours == Palette \cup (GrayLevels \X GrayLevels \X GrayLevels)
lumTable == [c \in Colours |-> lumDouble(c)] @@ <<>>
lum(c) == lumTable[c]

qMaxInt(a, b) == IF a < b THEN b ELSE a
qMinInt(a, b) == IF b < a THEN b ELSE a

\* QRect(x, y, width, height) and QRect(topLeft, bottomRight), the corners
\* both inside the rectangle
QRectXYWH(x, y, w, h) == [x |-> x, y |-> y, w |-> w, h |-> h]
QRectCorners(tl, br) ==
    [x |-> tl[1], y |-> tl[2], w |-> br[1] - tl[1] + 1, h |-> br[2] - tl[2] + 1]

\* the four updates made for a dark pixel (x, y)
BBoxUpdate(b, x, y) ==
    [minx |-> IF x < b.minx THEN x ELSE b.minx,
     miny |-> IF y < b.miny THEN y ELSE b.miny,
     maxx |-> IF x > b.maxx THEN x ELSE b.maxx,
     maxy |-> IF y > b.maxy THEN y ELSE b.maxy]

\* QImage::bytesPerLine(): a scan line is padded to a multiple of four bytes
bytesPerLine(w, dp) == IF dp = 32 THEN 4 * w ELSE 4 * ((w + 3) \div 4)

\* the byte at offset off of the pixel data holds a pixel of an 8-bit image
IsPixelByte(w, h, off) ==
    off \div bytesPerLine(w, 8) < h /\ off % bytesPerLine(w, 8) < w

\* the offsets of the red, green and blue byte of every row[x] that line 62
\* reads in an 8-bit image: row = constScanLine(y) taken as QRgb*, so row[x]
\* lies 4 * x bytes into the line
ReadOffsets(w, h) ==
    {y * bytesPerLine(w, 8) + 4 * x + i :
        x \in 0..(w - 1), y \in 0..(h - 1), i \in 0..2}

\* the bytes read that hold no pixel: the padding of a line, never written,
\* and what lies behind the pixel data
StrayOffsets(w, h, dp) ==
    IF dp = 32 THEN {}
    ELSE {off \in ReadOffsets(w, h) : ~IsPixelByte(w, h, off)}

\* some row[x] reaches behind the h * bytesPerLine bytes of the pixel data
Overrun(w, h, dp) ==
    dp = 8 /\ \E off \in ReadOffsets(w, h) : off >= h * bytesPerLine(w, 8)

ByteAt(im, stray, off) ==
    IF IsPixelByte(ImgW(im), ImgH(im), off)
    THEN im[off \div bytesPerLine(ImgW(im), 8)][off % bytesPerLine(ImgW(im), 8)][1]
    ELSE stray[off]

\* what row[x] of scan line y holds, as <<qRed, qGreen, qBlue>>: the pixel
\* itself for 32 bits a pixel; for 8 bits the four bytes from 4 * x on, the
\* blue byte first, stray giving the bytes that hold no pixel
ScanLines(im, dp, stray) ==
    IF dp = 32 THEN im
    ELSE [y \in 0..(ImgH(im) - 1) |-> [x \in 0..(ImgW(im) - 1) |->
            LET off == y * bytesPerLine(ImgW(im), 8) + 4 * x
            IN  << ByteAt(im, stray, off + 2), ByteAt(im, stray, off + 1),
                   ByteAt(im, stray, off) >>]]

\* the two loops over the scan lines, k = y * width + x; rows[y][x] is
\* row[x] of constScanLine(y)
RECURSIVE BBoxScan(_, _, _, _)
BBoxScan(rows, wl, k, b) ==
    IF k >= ImgW(rows) * ImgH(rows) THEN b
    ELSE LET x == k % ImgW(rows)
             y == k \div ImgW(rows)
         IN  BBoxScan(rows, wl, k + 1,
                      IF lum(rows[y][x]) < wl THEN BBoxUpdate(b, x, y) ELSE b)

\* findMazeBBox on the scan lines of an image: width and height are the
\* image's, the pixels are what the cast scan lines hold
findMazeBBox(rows, wl, pd) ==
    LET b == BBoxScan(rows, wl, 0, [minx |-> ImgW(rows), miny |-> ImgH(rows),
                                    maxx |-> -1, maxy |-> -1])
    IN  IF b.maxx < 0 THEN QRectXYWH(0, 0, ImgW(rows), ImgH(rows))
        ELSE QRectCorners(<<qMaxInt(0, b.minx - pd), qMaxInt(0, b.miny - pd)>>,
                          <<qMinInt(ImgW(rows) - 1, b.maxx + pd),
                            qMinInt(ImgH(rows) - 1, b.maxy + pd)>>)

\* img.copy(r) for a rectangle inside the image
Copy(im, r) == [y \in 0..(r.h - 1) |-> [x \in 0..(r.w - 1) |->
                    im[r.y + y][r.x + x]]]

\* solveMazeFromFile once the image is loaded: any image of at least 1x1,
\* of 32 bits a pixel or, up to MaxGrayPixels pixels, of 8
InitBBox ==
    /\ pc = "findMazeBBox"
    /\ \/ /\ depth = 32
          /\ \E d \in Dims(MaxPixels) : img \in ImagesOf(d[1], d[2])
       \/ /\ depth = 8
          /\ \E d \in Dims(MaxGrayPixels) : img \in GrayImagesOf(d[1], d[2])
    /\ mazeOnly = <<>> /\ cs = cellSize
    /\ grid = <<>>
    /\ start = <<0, 0>> /\ goal = <<0, 0>>
    /\ dist = <<>> /\ parent = <<>> /\ q = <<>>
    /\ gridPath = <<>> /\ lastGridPath = <<>>
    /\ moves = <<>> /\ movesJson = ""
    /\ mazeW = 0 /\ mazeH = 0 /\ bbox = <<0, 0>>
    /\ points = <<>> /\ overlay = <<>>
    /\ outcome = "running"
    /\ NoChat

\* QRect bbox = findMazeBBox(img); QImage mazeOnly = img.copy(bbox);
\* the bytes read that hold no pixel hold any values
FindMazeBBox ==
    /\ pc = "findMazeBBox"
    /\ \E stray \in [StrayOffsets(ImgW(img), ImgH(img), depth) -> GrayLevels] :
          LET r == findMazeBBox(ScanLines(img, depth, stray), wallLum, pad)
          IN  /\ bbox' = <<r.x, r.y>>
              /\ mazeW' = r.w /\ mazeH' = r.h
              /\ mazeOnly' = IF r.w >= 1 /\ r.h >= 1 /\ r.x >= 0 /\ r.y >= 0
                                /\ r.x + r.w <= ImgW(img)
                                /\ r.y + r.h <= ImgH(img)
                             THEN Copy(img, r) ELSE <<>>
    /\ pc' = "buildGrid"
    /\ UNCHANGED <<grid, start, goal, dist, parent, q, gridPath, lastGridPath,
                   moves, movesJson, points, overlay, outcome, img, depth, cs>>
    /\ UNCHANGED chatVars

\* a read behind the pixel data may as well end the program
FindMazeBBoxOverrun ==
    /\ pc = "findMazeBBox"
    /\ Overrun(ImgW(img), ImgH(img), depth)
    /\ outcome' = "aborted"
    /\ pc' = "done"
    /\ UNCHANGED <<grid, start, goal, dist, parent, q, gridPath, lastGridPath,
                   moves, movesJson, mazeW, mazeH, bbox, points, overlay>>
    /\ UNCHANGED <<imageVars, chatVars>>

NextBBox == FindMazeBBox \/ FindMazeBBoxOverrun

SpecBBox == InitBBox /\ [][NextBBox]_vars

\* the dark pixels of an image, as a set of <<x, y>>
DarkPixels(im) ==
    {p \in (0..(ImgW(im) - 1)) \X (0..(ImgH(im) - 1)) :
        lum(im[p[2]][p[1]]) < wallLum}
MinOf(S) == CHOOSE m \in S : \A n \in S : m <= n
MaxOf(S) == CHOOSE m \in S : \A n \in S : m >= n
\* a coordinate clamped to 0..hi
ClampInt(v, hi) == IF v < 0 THEN 0 ELSE IF v > hi THEN hi ELSE v
BBoxDone == pc = "buildGrid"

\* the box stored is the one the contract of findMazeBBox describes
BBoxAsContracted ==
    LET D == DarkPixels(img)
        W == ImgW(img)
        H == ImgH(img)
        left == bbox[1]
        top == bbox[2]
        right == bbox[1] + mazeW - 1
        bottom == bbox[2] + mazeH - 1
    IN  /\ mazeW >= 1 /\ mazeH >= 1
        /\ left >= 0 /\ top >= 0 /\ right <= W - 1 /\ bottom <= H - 1
        /\ D # {} =>
             /\ left = ClampInt(MinOf({p[1] : p \in D}) - pad, W - 1)
             /\ top = ClampInt(MinOf({p[2] : p \in D}) - pad, H - 1)
             /\ right = ClampInt(MaxOf({p[1] : p \in D}) + pad, W - 1)
             /\ bottom = ClampInt(MaxOf({p[2] : p \in D}) + pad, H - 1)
             /\ \A p \in D : /\ left <= p[1] /\ p[1] <= right
                             /\ top <= p[2] /\ p[2] <= bottom
        /\ D = {} => left = 0 /\ top = 0 /\ mazeW = W /\ mazeH = H

\* C11: findMazeBBox returns a non-empty rectangle inside the image; with a
\* dark pixel it is the tight box of the dark pixels grown by pad on each
\* side and clamped to [0,width-1] x [0,height-1], so it holds every dark
\* pixel; with no dark pixel it is the full image rectangle.
C11_BBoxTightPaddedClamped == BBoxDone => BBoxAsContracted

\* the same for the images whose scan lines are arrays of QRgb
C11_QRgbImagesOnly == (BBoxDone /\ depth = 32) => BBoxAsContracted

\* an image of 8 bits a pixel without a dark pixel whose box is not the
\* full image
C11_GrayBoxOfStrayBytes ==
    /\ BBoxDone /\ depth = 8
    /\ DarkPixels(img) = {}
    /\ (mazeW < ImgW(img) \/ mazeH < ImgH(img))

\* a dark pixel whose padded box is clamped on one axis and keeps a margin
\* to both image edges on the other
C11_Witness ==
    /\ BBoxDone /\ depth = 32
    /\ DarkPixels(img) # {}
    /\ bbox[1] > 0 /\ bbox[1] + mazeW < ImgW(img)
    /\ mazeH = ImgH(img)

(***************************************************************************)
(* buildGrid.                                                              *)
(***************************************************************************)
\* buildGrid runs with every cell size 1..MaxCellSize on every image of at
\* most MaxShadedPixels pixels in the three colours and on every image of
\* at most MaxGridPixels pixels in black and white
MaxCellSize == 5
MaxShadedPixels == 6
MaxGridPixels == 10

TwoToneImagesOf(w, h) == [0..(h - 1) -> [0..(w - 1) -> {Black, White}]]

isWhite(im, x, y) ==
    IF x < 0 \/ y < 0 \/ x >= ImgW(im) \/ y >= ImgH(im) THEN FALSE
    ELSE lum(im[y][x]) > whiteLum

\* the two sampling loops of one cell, from pixel (x, y) on: total and
\* whiteCount
RECURSIVE SampleCell(_, _, _, _, _, _, _)
SampleCell(im, x0, x1, y1, x, y, n) ==
    IF y >= y1 \/ x0 >= x1 THEN n
    ELSE IF x >= x1 THEN SampleCell(im, x0, x1, y1, x0, y + 1, n)
    ELSE SampleCell(im, x0, x1, y1, x + 1, y,
                    [total |-> n.total + 1,
                     whiteCount |-> IF isWhite(im, x, y)
                                    THEN n.whiteCount + 1 ELSE n.whiteCount])

\* ratio > 0.7 with ratio = (double)whiteCount / (double)total, or 0.0 for
\* total = 0.  The quotient of two small integers is the double nearest to
\* the fraction, and the double nearest to 7/10 is the literal 0.7 itself,
\* so the comparison is the one of the exact fractions.
RatioAbove(whiteCount, total) ==
    IF total > 0 THEN 10 * whiteCount > 7 * total ELSE FALSE

\* buildGrid judging a cell by its white pixels over cellSize * cellSize
buildGridOverFullCell(maze, c) ==
    LET gw == (ImgW(maze) + c - 1) \div c
        gh == (ImgH(maze) + c - 1) \div c
    IN  [gy \in 0..(gh - 1) |-> [gx \in 0..(gw - 1) |->
            LET x0 == gx * c
                y0 == gy * c
                x1 == qMinInt(x0 + c, ImgW(maze))
                y1 == qMinInt(y0 + c, ImgH(maze))
                n == SampleCell(maze, x0, x1, y1, x0, y0,
                                [total |-> 0, whiteCount |-> 0])
            IN  RatioAbove(n.whiteCount, c * c)]]

buildGrid(maze, c) ==
    LET gw == (ImgW(maze) + c - 1) \div c
        gh == (ImgH(maze) + c - 1) \div c
    IN  [gy \in 0..(gh - 1) |-> [gx \in 0..(gw - 1) |->
            LET x0 == gx * c
                y0 == gy * c
                x1 == qMinInt(x0 + c, ImgW(maze))
                y1 == qMinInt(y0 + c, ImgH(maze))
                n == SampleCell(maze, x0, x1, y1, x0, y0,
                                [total |-> 0, whiteCount |-> 0])
            IN  RatioAbove(n.whiteCount, n.total)]]

\* buildGrid called on any image of at least 1x1 with any cell size >= 1
InitBuildGrid ==
    /\ pc = "buildGrid"
    /\ \E d \in Dims(MaxGridPixels) :
          mazeOnly \in IF d[1] * d[2] <= MaxShadedPixels
                       THEN ImagesOf(d[1], d[2])
                       ELSE TwoToneImagesOf(d[1], d[2])
    /\ cs \in 1..MaxCellSize
    /\ img = <<>> /\ depth = 32
    /\ grid = <<>>
    /\ start = <<0, 0>> /\ goal = <<0, 0>>
    /\ dist = <<>> /\ parent = <<>> /\ q = <<>>
    /\ gridPath = <<>> /\ lastGridPath = <<>>
    /\ moves = <<>> /\ movesJson = ""
    /\ mazeW = ImgW(mazeOnly) /\ mazeH = ImgH(mazeOnly) /\ bbox = <<0, 0>>
    /\ points = <<>> /\ overlay = <<>>
    /\ outcome = "running"
    /\ NoChat

\* buildGrid(mazeOnly, cellSize, grid);
BuildGrid ==
    /\ pc = "buildGrid"
    /\ grid' = buildGrid(mazeOnly, cs)
    /\ pc' = "findOpenings"
    /\ UNCHANGED <<start, goal, dist, parent, q, gridPath, lastGridPath,
                   moves, movesJson, mazeW, mazeH, bbox, points, overlay,
                   outcome>>
    /\ UNCHANGED <<imageVars, chatVars>>

NextBuildGrid == BuildGrid

SpecBuildGrid == InitBuildGrid /\ [][NextBuildGrid]_vars

\* ceil(a / b) as the least n with n * b >= a
CeilDiv(a, b) == CHOOSE n \in 0..a : n * b >= a /\ \A m \in 0..(n - 1) : m * b < a
\* the pixels of the image that lie in cell (gx, gy)
CellPixels(im, c, gx, gy) ==
    {p \in (0..(ImgW(im) - 1)) \X (0..(ImgH(im) - 1)) :
        /\ gx * c <= p[1] /\ p[1] < (gx + 1) * c
        /\ gy * c <= p[2] /\ p[2] < (gy + 1) * c}
WhitePixels(im, S) == {p \in S : lum(im[p[2]][p[1]]) > whiteLum}
BuildGridDone == pc = "findOpenings" /\ mazeOnly # <<>>

\* C12: buildGrid gives ceil(H/c) rows of ceil(W/c) columns, at least 1x1,
\* and a cell is free iff strictly more than 7/10 of the image pixels that
\* lie in it are white, a truncated edge cell being judged over its own
\* pixel count.
C12_GridByOwnPixelRatio ==
    BuildGridDone =>
        /\ GridH(grid) = CeilDiv(ImgH(mazeOnly), cs)
        /\ GridW(grid) = CeilDiv(ImgW(mazeOnly), cs)
        /\ GridH(grid) >= 1 /\ GridW(grid) >= 1
        /\ \A gy \in 0..(GridH(grid) - 1) : \A gx \in 0..(GridW(grid) - 1) :
              LET S == CellPixels(mazeOnly, cs, gx, gy)
              IN  grid[gy][gx] <=>
                    10 * Cardinality(WhitePixels(mazeOnly, S))
                        > 7 * Cardinality(S)

\* a truncated edge cell that is free although its white pixels are not
\* more than 7/10 of cellSize * cellSize
C12_Witness ==
    /\ BuildGridDone
    /\ \E gy \in 0..(GridH(grid) - 1) : \E gx \in 0..(GridW(grid) - 1) :
          LET S == CellPixels(mazeOnly, cs, gx, gy)
          IN  /\ Cardinality(S) < cs * cs
              /\ grid[gy][gx]
              /\ 10 * Cardinality(WhitePixels(mazeOnly, S)) <= 7 * cs * cs

\* a cell of ten pixels of which exactly seven are white is reached, and is
\* blocked
C12_ExactlySevenTenths ==
    /\ BuildGridDone
    /\ \E gy \in 0..(GridH(grid) - 1) : \E gx \in 0..(GridW(grid) - 1) :
          LET S == CellPixels(mazeOnly, cs, gx, gy)
          IN  /\ Cardinality(S) = 10
              /\ Cardinality(WhitePixels(mazeOnly, S)) = 7
              /\ ~grid[gy][gx]

(***************************************************************************)
(* bfsPath run to its return, for statements about the whole pipeline on   *)
(* one grid.                                                               *)
(***************************************************************************)
\* while (!q.empty()) { u = q.front(); q.pop(); if (u == goal) break; ... }
RECURSIVE BfsRun(_, _, _)
BfsRun(g, b, t) ==
    IF b.q = <<>> THEN b
    ELSE LET u == Head(b.q)
             r == [dist |-> b.dist, parent |-> b.parent, q |-> Tail(b.q)]
         IN  IF u = t THEN r ELSE BfsRun(g, Expand(g, r, u), t)

bfsPath(g, s, t) ==
    LET b == BfsRun(g, BfsInit(g, s), t)
    IN  BfsResult(g, b.dist, b.parent, s, t)

\* the stepped search and the run agree on the returned path
BfsRunAgrees == pc = "checkPath" => gridPath = bfsPath(grid, start, goal)

\* Scenario B before the sealing: a 2x2 grid, top-left and bottom-right
\* free and joined through a free intermediate cell
ScenarioB(g) ==
    /\ GridW(g) = 2 /\ GridH(g) = 2
    /\ g[0][0] /\ g[1][1]
    /\ g[0][1] \/ g[1][0]

TwoUnitMoves(ms) == Len(ms) = 2 /\ ms[1].steps = 1 /\ ms[2].steps = 1

\* C13 as stated: in Scenario B findOpenings, the sealing, bfsPath and
\* pathToMoves give a 3-cell path from top-left to bottom-right and two
\* moves of one step each.
C13_ScenarioBThreeCells ==
    (pc = "seal" /\ ScenarioB(grid)) =>
        LET path == bfsPath(sealBorder(grid, start, goal), start, goal)
        IN  /\ Len(path) = 3
            /\ path[1] = <<0, 0>> /\ path[3] = <<1, 1>>
            /\ TwoUnitMoves(MovesOf(path))

\* C13 amended: in Scenario B findOpenings returns top-left as start and
\* bottom-right as goal; every cell of a 2x2 grid is a border cell, so the
\* sealing blocks the intermediate cells, bfsPath returns the empty path and
\* the solve ends with "no path" and no moves.  On the unsealed grid bfsPath
\* returns a 3-cell path from top-left to bottom-right and pathToMoves two
\* moves of one step each.
C13_ScenarioBSealedNoPath ==
    /\ (pc = "seal" /\ ScenarioB(grid)) =>
          LET sealed == sealBorder(grid, start, goal)
              open == bfsPath(grid, start, goal)
          IN  /\ start = <<0, 0>> /\ goal = <<1, 1>>
              /\ ~sealed[0][1] /\ ~sealed[1][0]
              /\ bfsPath(sealed, start, goal) = <<>>
              /\ Len(open) = 3
              /\ open[1] = <<0, 0>> /\ open[3] = <<1, 1>>
              /\ TwoUnitMoves(MovesOf(open))
    /\ (/\ pc \in {"checkPath", "done"}
        /\ GridW(grid) = 2 /\ GridH(grid) = 2
        /\ start = <<0, 0>> /\ goal = <<1, 1>>) =>
          /\ gridPath = <<>> /\ moves = <<>>
          /\ pc = "done" => outcome = "no_path"

\* Scenario B has passed findOpenings, and the sealed grid has no path
C13_Witness ==
    /\ pc = "seal" /\ ScenarioB(grid)
    /\ bfsPath(sealBorder(grid, start, goal), start, goal) = <<>>

\* the solve of a 2x2 grid with these openings has ended with "no path"
C13_SolveEnded ==
    /\ pc = "done" /\ outcome = "no_path"
    /\ GridW(grid) = 2 /\ GridH(grid) = 2
    /\ start = <<0, 0>> /\ goal = <<1, 1>>

(***************************************************************************)
(* The 1x1 grid.                                                           *)
(***************************************************************************)
OneCell == GridW(grid) = 1 /\ GridH(grid) = 1

\* the stages of the solve of a 1x1 grid up to the return of pathToMoves: a
\* blocked cell makes findOpenings fail ("no entrances"); a free cell gives
\* start = goal = (0,0), stays free through the sealing, bfsPath returns the
\* one-cell path [(0,0)] and pathToMoves the empty move sequence; "no path"
\* is never reported
OneCellStages ==
    (OneCell /\ grid # <<>>) =>
        /\ outcome # "no_path"
        /\ (pc = "findOpenings" \/ OpeningsDone) =>
              /\ ~grid[0][0] =>
                    (pc = "findOpenings" \/ (pc = "done" /\ outcome = "no_entrances"))
              /\ (grid[0][0] /\ OpeningsDone) =>
                    pc = "seal" /\ start = <<0, 0>> /\ goal = <<0, 0>>
        /\ SealDone =>
              /\ grid[0][0]
              /\ start = <<0, 0>> /\ goal = <<0, 0>>
        /\ BfsDone => gridPath = << <<0, 0>> >>
        /\ (pc = "render" \/ (pc = "done" /\ SealDone)) =>
              /\ moves = <<>>
              /\ movesJson = "{}"
        /\ pc \in {"findOpenings", "seal", "bfsPath", "bfsLoop", "bfsReturn",
                   "checkPath", "render"} => outcome = "running"

\* C14: for a 1x1 grid the pipeline has exactly two outcomes: the blocked
\* cell ends in "no entrances"; the free cell gives start = goal = (0,0),
\* stays free through the sealing, has the path [(0,0)] and no moves, and
\* its solve ends solved.  No other outcome (a crash, "no path") is reached.
C14_TwoOutcomes ==
    /\ OneCellStages
    /\ (OneCell /\ grid # <<>> /\ pc = "done") =>
          outcome = IF grid[0][0] THEN "solved" ELSE "no_entrances"

\* the solve of the free 1x1 grid is aborted in the overlay stage: the
\* cropped image is one pixel wide or high
C14_Aborted ==
    /\ OneCell /\ pc = "done" /\ outcome = "aborted"
    /\ grid[0][0]
    /\ gridPath = << <<0, 0>> >> /\ moves = <<>>
    /\ mazeW = 1 \/ mazeH = 1

\* the free 1x1 grid after pathToMoves has returned
C14_Witness ==
    /\ OneCell /\ pc = "render"
    /\ grid[0][0]
    /\ start = goal
    /\ gridPath = << <<0, 0>> >>
    /\ moves = <<>> /\ movesJson = "{}"

\* the blocked 1x1 grid is refused by findOpenings
C14_BlockedRefused ==
    /\ OneCell /\ pc = "done" /\ outcome = "no_entrances"
    /\ ~grid[0][0]

(***************************************************************************)
(* A reference breadth-first search: the cells in their order of           *)
(* discovery, a position in that order as the FIFO queue, every cell       *)
(* expanded, and the discoverer of each cell.                              *)
(***************************************************************************)
RefNeighbours(c) == << <<c[1] + 1, c[2]>>, <<c[1] - 1, c[2]>>,
                       <<c[1], c[2] + 1>>, <<c[1], c[2] - 1>> >>
Range(f) == {f[i] : i \in DOMAIN f}

RECURSIVE RefSearch(_, _, _, _)
RefSearch(g, order, from, i) ==
    IF i > Len(order) THEN [order |-> order, from |-> from]
    ELSE LET u == order[i]
             known == Range(order)
             Fresh(n) == n \in FreeCells(g) /\ n \notin known
             found == SelectSeq(RefNeighbours(u), Fresh)
         IN  RefSearch(g, order \o found,
                       [c \in Cells(g) |->
                           IF c \in Range(found) THEN u ELSE from[c]],
                       i + 1)

RECURSIVE RefWalk(_, _, _)
RefWalk(from, s, v) ==
    IF v = s THEN << s >> ELSE Append(RefWalk(from, s, from[v]), v)

RefPath(g, s, t) ==
    LET r == RefSearch(g, << s >>, [c \in Cells(g) |-> NoPoint], 1)
    IN  IF t \in Range(r.order) THEN RefWalk(r.from, s, t) ELSE <<>>

\* C15: the path bfsPath returns is, cell by cell, the path of the reference
\* breadth-first search (FIFO queue, neighbours examined East, West, South,
\* North, parent = first discoverer), for every grid, start and goal.
C15_SameAsReferenceBfs ==
    pc = "checkPath" => gridPath = RefPath(grid, start, goal)

\* a returned path beside which another shortest path exists: a free cell
\* off the path lies on a shortest way from start to goal
C15_Witness ==
    /\ pc = "checkPath"
    /\ Len(gridPath) >= 3
    /\ gridPath = RefPath(grid, start, goal)
    /\ \E c \in FreeCells(grid) \ Range(gridPath) :
          /\ Reachable(grid, start, c) /\ Reachable(grid, c, goal)
          /\ ShortestDist(grid, start, c) + ShortestDist(grid, c, goal)
                = Len(gridPath) - 1

(***************************************************************************)
(* bfsPath as a loop that runs on: every round of the while loop and the   *)
(* return are taken when they can be, the code being one sequential call.  *)
(***************************************************************************)
\* the search is followed to its end on every grid of at most LiveMaxCells
LiveMaxCells == 6

InitBfsFair ==
    /\ pc = "bfsPath"
    /\ \E d \in Dims(LiveMaxCells) : grid \in GridsOf(d[1], d[2])
    /\ start \in FreeCells(grid) /\ goal \in FreeCells(grid)
    /\ dist = <<>> /\ parent = <<>> /\ q = <<>>
    /\ gridPath = <<>> /\ lastGridPath = <<>>
    /\ moves = <<>> /\ movesJson = ""
    /\ mazeW = 0 /\ mazeH = 0 /\ bbox = <<0, 0>>
    /\ points = <<>> /\ overlay = <<>>
    /\ outcome = "running"
    /\ NoImage /\ NoChat

SpecBfsFair == InitBfsFair /\ [][NextBfs]_vars /\ WF_vars(NextBfs)

DistOf(c) == dist[idx(GridW(grid), c[1], c[2])]
ParentOf(c) == parent[idx(GridW(grid), c[1], c[2])]
Searching == pc \in {"bfsLoop", "bfsReturn", "checkPath"}

\* one step of the search: a distance once set stays; the cells pushed are
\* distinct, had the distance -1 and get the distance of the dequeued cell
\* plus one; dequeuing the goal, and every step after it, discovers nothing
C16_Step ==
    /\ Searching =>
          \A c \in Cells(grid) :
              DistOf(c) # -1 => dist'[idx(GridW(grid), c[1], c[2])] = DistOf(c)
    /\ (pc = "bfsLoop" /\ q # <<>>) =>
          /\ Len(q') >= Len(q) - 1
          /\ SubSeq(q', 1, Len(q) - 1) = Tail(q)
          /\ LET pushed == SubSeq(q', Len(q), Len(q'))
             IN  /\ NoRepeat(pushed)
                 /\ \A i \in 1..Len(pushed) :
                       /\ DistOf(pushed[i]) = -1
                       /\ dist'[idx(GridW(grid), pushed[i][1], pushed[i][2])]
                             = DistOf(Head(q)) + 1
                 /\ \A c \in Cells(grid) :
                       (DistOf(c) = -1 /\ c \notin Range(pushed)) =>
                           dist'[idx(GridW(grid), c[1], c[2])] = -1
          /\ Head(q) = goal =>
                dist' = dist /\ parent' = parent /\ q' = Tail(q)
                    /\ pc' = "bfsReturn"
    /\ pc \in {"bfsReturn", "checkPath"} =>
          dist' = dist /\ parent' = parent /\ q' = q

\* what keeps the queue and the parent walk finite: the queue holds
\* distinct discovered cells, and every parent pointer leads to a cell one
\* step nearer to start, so the walk from goal has at most dist[goal] + 1
\* cells
C16_Bounded ==
    Searching =>
        /\ NoRepeat(q)
        /\ \A i \in 1..Len(q) : DistOf(q[i]) # -1
        /\ \A c \in Cells(grid) :
              /\ DistOf(c) = -1 => c \notin Range(q)
              /\ (DistOf(c) # -1 /\ c # start) =>
                    /\ ParentOf(c) # NoPoint
                    /\ DistOf(ParentOf(c)) = DistOf(c) - 1
              /\ DistOf(c) < NumCells(grid)
        /\ pc = "checkPath" => Len(gridPath) <= NumCells(grid)

\* C16: in bfsPath a cell is pushed only when its distance is -1, its
\* distance is set at that moment and never changes afterwards (so it is
\* enqueued at most once), nothing is discovered once goal has been
\* dequeued, and the search loop and the parent walk always come to an end.
C16_EnqueuedOnceAndTerminates ==
    /\ [][C16_Step]_vars
    /\ []C16_Bounded
    /\ <>(pc = "checkPath")

\* the search has ended at the goal with a reachable cell left undiscovered
\* and with a cell that two discovered neighbours offered
C16_Witness ==
    /\ pc = "checkPath"
    /\ Len(gridPath) >= 3
    /\ \E c \in FreeCells(grid) : Reachable(grid, start, c) /\ DistOf(c) = -1
    /\ \E c \in FreeCells(grid) :
          /\ DistOf(c) >= 1
          /\ Cardinality({n \in FreeCells(grid) :
                 Adjacent(n, c) /\ DistOf(n) = DistOf(c) - 1}) >= 2

(***************************************************************************)
(* The path and the border.                                                *)
(***************************************************************************)
Interior(g, c) == /\ 0 < c[1] /\ c[1] < GridW(g) - 1
                  /\ 0 < c[2] /\ c[2] < GridH(g) - 1

\* C17: in every successful solve each cell of the returned path other than
\* start and goal is strictly interior (0 < col < gw-1, 0 < row < gh-1), so
\* a border cell that was free but not chosen as start or goal is not on
\* the path.
C17_PathInteriorBetweenOpenings ==
    /\ (pc = "render" \/ Solved) =>
          \A i \in 1..Len(gridPath) :
              (gridPath[i] # start /\ gridPath[i] # goal) =>
                  Interior(grid, gridPath[i])
    /\ pc = "seal" =>
          LET path == bfsPath(sealBorder(grid, start, goal), start, goal)
          IN  \A c \in FreeBorder(grid) \ {start, goal} : c \notin Range(path)

\* a solved maze whose path runs from one border opening through at least
\* two interior cells to the other
C17_Witness ==
    /\ Solved
    /\ start # goal
    /\ Len(gridPath) >= 4
    /\ gridPath[1] = start /\ gridPath[Len(gridPath)] = goal
    /\ \A i \in 2..(Len(gridPath) - 1) : Interior(grid, gridPath[i])

\* before the sealing a free border cell other than the openings lies on
\* the path the search would take; after the sealing the search takes a
\* path without it
C17_BorderShortcutRefused ==
    /\ pc = "seal"
    /\ bfsPath(sealBorder(grid, start, goal), start, goal) # <<>>
    /\ \E c \in FreeBorder(grid) \ {start, goal} :
          c \in Range(bfsPath(grid, start, goal))

(***************************************************************************)
(* The chat: postChat and postImage with their reply handlers.             *)
(* conversationHistory and messages are the sequences of the roles of      *)
(* their messages; memory is the file memory.json, an array or not.        *)
(***************************************************************************)
\* The code sets no limit to the requests of a window, so the histories and
\* the numbers of awaited replies are unbounded.  The first MaxRequests
\* requests of a window, counted by the "You:" lines of the history widget,
\* are followed exactly.  With the next request the unbounded part of the
\* chat state (youLines, chatPending, imagePending, conversationHistory,
\* messages and the content of memory.json) is no longer followed: it takes
\* the values below, which stand for every value it may have, and every
\* handler stays enabled with every outcome it may then have.  The flags,
\* the last prompt and what was last reported stay exact.  A statement
\* about the lengths of the lists speaks of the requests followed exactly.
MaxRequests == 2
Beyond == MaxRequests + 1
UntrackedList == << "untracked" >>
UntrackedMemory == [isArray |-> TRUE, array |-> UntrackedList]
Tracked == youLines <= MaxRequests

\* if (conversationHistory.size() > 20) conversationHistory.removeFirst();
HistoryLimit == 20
TrimHistory(h) == IF Len(h) > HistoryLimit THEN Tail(h) ELSE h

\* the window takes clicks and keys: no handler runs, no file dialog is
\* open, the program has not been aborted
Idle == pc \in {"idle", "done"} /\ outcome # "aborted" /\ ~imageDialog

\* an event loop runs, that of the window or that of a file dialog: the
\* finished signal of a reply is delivered
InEventLoop == pc \in {"idle", "done", "dialog"} /\ outcome # "aborted"

\* the unbounded part of the chat state once a request beyond the first
\* MaxRequests is posted
Untrack ==
    /\ youLines' = Beyond
    /\ chatPending' = Beyond
    /\ imagePending' = Beyond
    /\ conversationHistory' = UntrackedList
    /\ messages' = UntrackedList
    /\ memory' = UntrackedMemory

\* postChat up to net->post: the text is shown as a "You:" line, input and
\* sendBtn are disabled, the user turn is appended, a reply is awaited
postChat(userText) ==
    /\ prompt' = userText
    /\ inputEnabled' = FALSE
    /\ chatEvent' = "posted"
    /\ IF youLines < MaxRequests
       THEN /\ youLines' = youLines + 1
            /\ conversationHistory' = Append(conversationHistory, "user")
            /\ chatPending' = chatPending + 1
            /\ UNCHANGED <<messages, imagePending, memory>>
       ELSE Untrack
    /\ UNCHANGED <<sendImageEnabled, imageDialog>>

\* sendCurrentInput, by sendBtn or returnPressed of the enabled input
SendCurrentInput ==
    /\ Idle
    /\ inputEnabled
    /\ \E userText \in {"", "text"} :
          IF userText = "" \/ ~hasKey
          THEN /\ chatEvent' = "ignored"
               /\ UNCHANGED <<prompt, youLines, conversationHistory,
                              inputEnabled, chatPending, memory>>
               /\ UNCHANGED pictureVars
          ELSE postChat(userText)
    /\ UNCHANGED hasKey
    /\ UNCHANGED <<solveVars, imageVars>>

\* explainMazePath, by guideBtn (never disabled)
ExplainMazePath ==
    /\ Idle
    /\ IF lastGridPath = <<>>
       THEN /\ chatEvent' = "no_maze_path"
            /\ UNCHANGED <<prompt, youLines, conversationHistory,
                           inputEnabled, chatPending, memory>>
            /\ UNCHANGED pictureVars
       ELSE postChat(pathToMoves(lastGridPath))
    /\ UNCHANGED hasKey
    /\ UNCHANGED <<solveVars, imageVars>>

\* the finished handler of a reply of postChat: an empty text is reported;
\* any other is appended as the assistant turn, the history written to
\* memory.json if the file opens for writing, and then trimmed
PostChatFinished ==
    /\ InEventLoop
    /\ chatPending > 0
    /\ \E replyText \in {"", "text"} :
          IF replyText = ""
          THEN /\ chatEvent' = "empty_response"
               /\ UNCHANGED <<conversationHistory, memory>>
          ELSE /\ \E opened \in BOOLEAN :
                     memory' = IF opened
                               THEN IF Tracked
                                    THEN [isArray |-> TRUE,
                                          array |-> Append(conversationHistory,
                                                           "assistant")]
                                    ELSE UntrackedMemory
                               ELSE memory
               /\ conversationHistory' =
                     IF Tracked
                     THEN TrimHistory(Append(conversationHistory, "assistant"))
                     ELSE UntrackedList
               /\ chatEvent' = "replied"
    /\ inputEnabled' = TRUE
    /\ chatPending' = IF Tracked THEN chatPending - 1 ELSE Beyond
    /\ UNCHANGED <<hasKey, prompt, youLines, pictureVars>>
    /\ UNCHANGED <<solveVars, imageVars>>

\* the "You:" line of sendImage or captureAndSend and postImage up to
\* net->post: input, sendBtn and sendImageBtn are disabled, the user message
\* is appended to messages, a reply is awaited
postImage ==
    /\ inputEnabled' = FALSE
    /\ sendImageEnabled' = FALSE
    /\ chatEvent' = "image_posted"
    /\ IF youLines < MaxRequests
       THEN /\ youLines' = youLines + 1
            /\ messages' = Append(messages, "user")
            /\ imagePending' = imagePending + 1
            /\ UNCHANGED <<conversationHistory, chatPending, memory>>
       ELSE Untrack
    /\ UNCHANGED prompt

\* sendImage, by the enabled sendImageBtn, up to its file dialog
SendImage ==
    /\ Idle
    /\ sendImageEnabled
    /\ imageDialog' = TRUE
    /\ UNCHANGED <<hasKey, inputEnabled, youLines, textVars, messages,
                   imagePending, sendImageEnabled>>
    /\ UNCHANGED <<solveVars, imageVars>>

\* sendImage from the return of the dialog: it was cancelled, or gave a file
\* that is no image, or gave an image
SendImageChosen ==
    /\ imageDialog
    /\ imageDialog' = FALSE
    /\ \E file \in {"", "unreadable", "image"} :
          IF file = "" \/ ~hasKey
          THEN /\ chatEvent' = "ignored"
               /\ UNCHANGED <<inputEnabled, youLines, messages, imagePending,
                              sendImageEnabled, prompt, conversationHistory,
                              chatPending, memory>>
          ELSE IF file = "unreadable"
          THEN /\ chatEvent' = "could_not_load"
               /\ UNCHANGED <<inputEnabled, youLines, messages, imagePending,
                              sendImageEnabled, prompt, conversationHistory,
                              chatPending, memory>>
          ELSE postImage
    /\ UNCHANGED hasKey
    /\ UNCHANGED <<solveVars, imageVars>>

\* captureAndSend, by captureBtn while the camera runs: lastFrame is null
\* until a frame has come
CaptureAndSend ==
    /\ Idle
    /\ \E lastFrameNull \in BOOLEAN :
          IF lastFrameNull
          THEN /\ chatEvent' = "no_frame"
               /\ UNCHANGED <<inputEnabled, youLines, messages, imagePending,
                              sendImageEnabled, prompt, conversationHistory,
                              chatPending, memory>>
          ELSE postImage
    /\ UNCHANGED <<hasKey, imageDialog>>
    /\ UNCHANGED <<solveVars, imageVars>>

\* onApiReply, the finished handler of a reply of postImage: an error is
\* reported, any other reply appended to messages; input and sendBtn are
\* enabled, sendImageBtn is not
OnApiReply ==
    /\ InEventLoop
    /\ imagePending > 0
    /\ \E error \in BOOLEAN :
          IF error
          THEN chatEvent' = "image_error" /\ UNCHANGED messages
          ELSE /\ chatEvent' = "image_replied"
               /\ messages' = IF Tracked THEN Append(messages, "assistant")
                               ELSE UntrackedList
    /\ inputEnabled' = TRUE
    /\ imagePending' = IF Tracked THEN imagePending - 1 ELSE Beyond
    /\ UNCHANGED <<hasKey, prompt, youLines, conversationHistory, chatPending,
                   memory, sendImageEnabled, imageDialog>>
    /\ UNCHANGED <<solveVars, imageVars>>

(***************************************************************************)
(* The window: solveMazeFromFile called again and again, the chat handlers *)
(* in between and the reply handlers also while a file dialog is open.     *)
(* lastGridPath and apiKey live as long as the window, the rest of the     *)
(* solve state is local to one call.                                       *)
(***************************************************************************)
\* the window solves grids of at most SessMaxCells cells
SessMaxCells == 3

\* a call of solveMazeFromFile begins with fresh locals
FreshLocals ==
    /\ start' = <<0, 0>> /\ goal' = <<0, 0>>
    /\ dist' = <<>> /\ parent' = <<>> /\ q' = <<>>
    /\ gridPath' = <<>>
    /\ moves' = <<>> /\ movesJson' = ""
    /\ mazeW' = 0 /\ mazeH' = 0 /\ bbox' = <<0, 0>>
    /\ points' = <<>> /\ overlay' = <<>>

\* what a call keeps while its dialog is answered
DialogLocals == <<start, goal, dist, parent, q, gridPath, moves, movesJson,
                  mazeW, mazeH, bbox, points, overlay>>

\* if (apiKey.isEmpty()) { "API key missing."; return; }
SolveApiKeyMissing ==
    /\ Idle
    /\ ~hasKey
    /\ grid' = <<>> /\ FreshLocals
    /\ outcome' = "api_key_missing"
    /\ pc' = "done"
    /\ UNCHANGED <<lastGridPath, imageVars, chatVars>>

\* solveMazeFromFile, by solveBtn, up to its file dialog
SolveDialog ==
    /\ Idle
    /\ hasKey
    /\ grid' = <<>> /\ FreshLocals
    /\ outcome' = "running"
    /\ pc' = "dialog"
    /\ UNCHANGED <<lastGridPath, imageVars, chatVars>>

\* if (path.isEmpty()) return;
SolveCancelled ==
    /\ pc = "dialog"
    /\ outcome' = "cancelled"
    /\ pc' = "done"
    /\ UNCHANGED <<grid, DialogLocals, lastGridPath, imageVars, chatVars>>

\* if (img.isNull()) { "Could not load image."; return; }
SolveImageNull ==
    /\ pc = "dialog"
    /\ outcome' = "no_image"
    /\ pc' = "done"
    /\ UNCHANGED <<grid, DialogLocals, lastGridPath, imageVars, chatVars>>

\* an image is loaded, cropped and turned into a grid by buildGrid
SolveImageLoaded ==
    /\ pc = "dialog"
    /\ \E d \in Dims(SessMaxCells) : grid' \in GridsOf(d[1], d[2])
    /\ pc' = "findOpenings"
    /\ UNCHANGED <<DialogLocals, outcome, lastGridPath, imageVars, chatVars>>

\* findMazeBBox reads the lines of the loaded image as QRgb whatever its
\* format: on an 8-bit image it reads beyond the lines and, as in
\* FindMazeBBoxOverrun, beyond the buffer, which may end the process; if it
\* does not, the box and so the grid are any (SolveImageLoaded)
SolveImageOverrun ==
    /\ pc = "dialog"
    /\ outcome' = "aborted"
    /\ pc' = "done"
    /\ UNCHANGED <<grid, DialogLocals, lastGridPath, imageVars, chatVars>>

\* memory.json when the window is constructed: no array, the empty array,
\* or the array an earlier run has written in its ninth exchange, 19
\* messages
NinthExchange == [i \in 1..19 |-> IF i = 1 THEN "system"
                                  ELSE IF i % 2 = 0 THEN "user"
                                  ELSE "assistant"]
StoredMemories ==
    {NoMemory,
     [isArray |-> TRUE, array |-> <<>>],
     [isArray |-> TRUE, array |-> NinthExchange]}

\* a constructed window
InitWindow ==
    /\ pc = "idle"
    /\ hasKey \in BOOLEAN
    /\ grid = <<>> /\ start = <<0, 0>> /\ goal = <<0, 0>>
    /\ dist = <<>> /\ parent = <<>> /\ q = <<>>
    /\ gridPath = <<>> /\ lastGridPath = <<>>
    /\ moves = <<>> /\ movesJson = ""
    /\ mazeW = 0 /\ mazeH = 0 /\ bbox = <<0, 0>>
    /\ points = <<>> /\ overlay = <<>>
    /\ outcome = "running"
    /\ NoImage
    /\ FreshChat

\* the history is the array of memory.json, or else the system message
InitChat == memory \in StoredMemories /\ InitWindow

\* a window started without memory.json
InitSession == memory = NoMemory /\ InitWindow

NextWindow ==
    \/ SolveApiKeyMissing \/ SolveDialog
    \/ SolveCancelled \/ SolveImageNull \/ SolveImageLoaded
    \/ SolveImageOverrun
    \/ FindOpenings \/ Seal
    \/ BfsEnter \/ BfsDequeue \/ BfsExhausted \/ BfsReturn
    \/ CheckPath \/ Render \/ RenderAbort
    \/ SendCurrentInput \/ ExplainMazePath \/ PostChatFinished
    \/ SendImage \/ SendImageChosen \/ CaptureAndSend \/ OnApiReply

SpecChat == InitChat /\ [][NextWindow]_vars

SpecSession == InitSession /\ [][NextWindow]_vars

\* C19: once the reply handler has appended a non-empty reply and trimmed,
\* conversationHistory holds at most 20 messages.
C19_AtMostTwentyMessages ==
    chatEvent = "replied" => Len(conversationHistory) <= HistoryLimit

\* what a solve that did not succeed reports
FailedOutcomes == {"no_entrances", "no_path", "api_key_missing", "cancelled",
                   "no_image"}

\* a step that posts a request of postChat: it is reported, and with it the
\* prompt, the report, the input or the count of requests changes (a
\* request that changes none of them repeats the one before it)
ChatPosted ==
    /\ chatEvent' = "posted"
    /\ <<prompt, chatEvent, inputEnabled, youLines>>' #
          <<prompt, chatEvent, inputEnabled, youLines>>

\* one step of a session: lastGridPath changes only in the step of a solve
\* that has found a path, to that path, and that solve goes on to draw it;
\* a step that ends a solve without success, or aborts it, leaves
\* lastGridPath as it was; a request of explainMazePath carries the moves of
\* lastGridPath
C18_Step ==
    /\ lastGridPath' # lastGridPath =>
          /\ pc = "checkPath" /\ gridPath # <<>>
          /\ lastGridPath' = gridPath
          /\ pc' = "render"
    /\ (pc' = "done" /\ outcome' \in FailedOutcomes \cup {"aborted"}) =>
          lastGridPath' = lastGridPath
    /\ (ChatPosted /\ prompt' # "text") =>
          /\ lastGridPath # <<>>
          /\ lastGridPath' = lastGridPath
          /\ prompt' = pathToMoves(lastGridPath)

\* while a solve with a path draws it, and once it has succeeded,
\* lastGridPath is its complete path from start to goal; before any path
\* has been found lastGridPath is empty
C18_Stored ==
    /\ (pc = "render" \/ Solved) =>
          /\ lastGridPath = gridPath
          /\ lastGridPath[1] = start
          /\ lastGridPath[Len(lastGridPath)] = goal
    /\ pc = "idle" => lastGridPath = <<>>

\* C18: over any sequence of solveMazeFromFile calls lastGridPath changes
\* only when a solve succeeds; a solve that ends with "no entrances", "no
\* path", a missing API key, a cancelled dialog or an unloadable image
\* leaves it unchanged, so it is always empty or the complete path of the
\* most recent successful solve, and explainMazePath after a failed solve
\* uses that earlier path.
C18_LastGridPathOfLastSuccess ==
    /\ [][C18_Step]_vars
    /\ []C18_Stored

\* a solve has just ended with "no path" while lastGridPath still holds the
\* two-cell path of an earlier solve, and explainMazePath has sent its moves
C18_Witness ==
    /\ pc = "done" /\ outcome = "no_path"
    /\ gridPath = <<>>
    /\ Len(lastGridPath) = 2
    /\ chatEvent = "posted"
    /\ prompt = pathToMoves(lastGridPath)
    /\ prompt # "{}"

\* the other failures after a success: lastGridPath is kept
C18_KeptAfterCancel ==
    /\ pc = "done" /\ outcome \in {"cancelled", "no_image", "no_entrances"}
    /\ lastGridPath # <<>>

====
